---- MODULE Spec2Model ----
(***************************************************************************)
(* A model of the agent task driver of Roo-Code (src/core/task/Task.ts):   *)
(* the ask/say interaction protocol on the UI message log, the resume of   *)
(* a saved conversation, one round of stream consumption with abort, the   *)
(* process-wide request rate limit, and the previous-response-id           *)
(* suppression after a condensation.                                       *)
(*                                                                         *)
(* The module holds several specifications, one per concern.  They share   *)
(* the variable list; a specification keeps the variables of the other     *)
(* concerns at their initial value.                                        *)
(*   Spec          ask / say / handleWebviewAskResponse / abortTask        *)
(*   SpecResume    resumeTaskFromHistory on bounded saved histories        *)
(*   SpecStream    recursivelyMakeClineRequests: the stream loop and abort *)
(*   SpecRate      attemptApiRequest: rate limit and retry, several tasks  *)
(*   SpecCondense  attemptApiRequest / condenseContext: request metadata   *)
(*   SpecStreamFair  SpecStream with every ready continuation running      *)
(*   SpecBackoff   attemptApiRequest: the delay of the automatic retry     *)
(*   SpecPause     waitForResume / resumePausedTask / dispose              *)
(*   SpecLog       the UI log under ask / say / abortTask / abortStream    *)
(*   SpecStore     addTo/overwrite of the two logs and their persistence   *)
(*   SpecSubtask   a parent round paused for a sub-task, the mode switch   *)
(*   SpecAsk       Spec with the identity of every delivered response      *)
(*   SpecRunTask   apps/roomote controller.ts: runTask and its IPC client  *)
(*   SpecWorkers   apps/roomote controller.ts: WorkerController            *)
(*   SpecTokens    src/shared/api.ts: getModelMaxOutputTokens              *)
(***************************************************************************)
EXTENDS Integers, Sequences, FiniteSets, TLC

VARIABLES
    \* ---- the Task instance: flags and UI log (Task.ts 183-264)
    now,                \* Date.now()
    abort,              \* Task.abort
    abandoned,          \* Task.abandoned
    clineMessages,      \* Task.clineMessages
    lastMessageTs,      \* Task.lastMessageTs
    askResponse,        \* Task.askResponse
    blockingAsk,        \* Task.blockingAsk
    taskState,          \* last of the TaskIdle / TaskActive events emitted
    asks,               \* the ask calls in progress, per caller
    ret,                \* how the ask/say call of the step just taken ended
    burst,              \* history: the current run of partial says of one kind
    \* ---- resources released by dispose (Task.ts 1306-1367)
    released,           \* number of release calls per resource
    rooIgnoreController,\* Task.rooIgnoreController is set
    bridgeService,      \* Task.bridgeService is set
    aborts,             \* history: what the abortTask calls of the task did
    isPaused,           \* Task.isPaused
    pauseInterval,      \* Task.pauseInterval: the timer it refers to (0: undefined)
    waits,              \* per waitForResume call: its interval timer and its promise
    \* ---- the API conversation (Task.ts 224) and the resume of a saved one
    savedApiHistory,    \* the API history file read by getSavedApiConversationHistory
    apiConversationHistory, \* Task.apiConversationHistory
    nextUserContent,    \* the user content handed to initiateTaskLoop
    resumePc,           \* where resumeTaskFromHistory stands
    resumedFrom,        \* history: the saved API history the resume started from
    \* ---- one task's request loop (Task.ts 1413-1911)
    streamPc,           \* where initiateTaskLoop / recursivelyMakeClineRequests stand
    depth,              \* nesting of recursivelyMakeClineRequests calls
    assistantMessage,   \* the round's assistantMessage: text chunks and appended note
    toolUseStreamed,    \* assistantMessageContent holds a tool_use block
    userMessageContentReady, \* Task.userMessageContentReady
    didRejectTool,      \* Task.didRejectTool
    didAlreadyUseTool,  \* Task.didAlreadyUseTool
    isStreaming,        \* Task.isStreaming
    didFinishAbortingStream, \* Task.didFinishAbortingStream
    apiReqCancelReason, \* cancelReason written to the api_req_started entry
    reinitCount,        \* calls of provider.initClineWithHistoryItem
    didEndLoop,         \* what the outermost recursivelyMakeClineRequests returned
    chunksSeen,         \* chunks the stream has yielded in this round
    requests,           \* calls of recursivelyMakeClineRequests so far
    abortedAt,          \* history: where the loop stood when the user aborted
    attempt,            \* the task's createMessage calls and what ended its attempts
    consecutiveMistakeCount, \* Task.consecutiveMistakeCount
    consecutiveMistakeLimit, \* Task.consecutiveMistakeLimit
    userContent,        \* what the frame being prepared will send: plain or with guidance
    noToolsUsedBlocks,  \* formatResponse.noToolsUsed() blocks in the content for the next call
    \* ---- attemptApiRequest of the Task instances of the process (Task.ts 1988-2261)
    lastGlobalApiRequestTime, \* static Task.lastGlobalApiRequestTime (0: undefined)
    rateLimitSeconds,   \* apiConfiguration.rateLimitSeconds
    requestDelaySeconds, \* provider state: requestDelaySeconds
    autoRetry,          \* autoApprovalEnabled && alwaysApproveResubmit
    rate,               \* per instance: where its attemptApiRequest stands
    \* ---- condensation and the previous-response linkage (Task.ts 793-860, 2051-2162)
    skipPrevResponseIdOnce, \* Task.skipPrevResponseIdOnce
    storedResponseId,   \* a say-text entry of the log holds a gpt5 previous_response_id
    isGpt5,             \* the model id starts with "gpt-5"
    condensePc,         \* where the round and its attemptApiRequest stand
    lastMetadata,       \* the metadata of the latest createMessage call
    condensedSince,     \* history: condensations since the latest createMessage call
    condenseRequests,   \* createMessage calls so far
    \* ---- what the message-store operations persist (Task.ts 524-615)
    savedClineMessages, \* the UI messages file written by saveTaskMessages
    taskHistoryItem,    \* the entries the provider's history item of the task reflects
    \* ---- a parent round paused for a sub-task (Task.ts 1479-1500)
    pausePc,            \* where the parent's round stands
    mode,               \* provider state: the active mode
    pausedModeSlug,     \* Task.pausedModeSlug
    roundWaited,        \* history: the round being prepared was suspended
    \* ---- the identity of the responses handed to handleWebviewAskResponse
    delivered,          \* history: calls of handleWebviewAskResponse so far
    slotSerial,         \* history: which delivery askResponse holds (0: none)
    issuedAfter,        \* history: per caller, the deliveries made before its ask
    returned,           \* history: the responses ask calls returned, in order
    \* ---- runTask of apps/roomote (controller.ts 209-435)
    runPc,              \* where runTask stands
    taskStartedAt,      \* let taskStartedAt
    taskFinishedAt,     \* let taskFinishedAt (0: undefined)
    taskAbortedAt,      \* let taskAbortedAt (0: undefined)
    taskTimedOut,       \* let taskTimedOut
    rooTaskId,          \* let rooTaskId
    isClientDisconnected, \* let isClientDisconnected
    slackThreadTs,      \* let slackThreadTs
    callbackCalls,      \* history: the callbacks runTask has invoked, in order
    commands,           \* history: the commands sent through the IPC client
    runError,           \* the error runTask threw
    \* ---- WorkerController of apps/roomote (controller.ts 7-136)
    isRunning,          \* WorkerController.isRunning
    pollingInterval,    \* WorkerController.pollingInterval: its timer (0: null)
    activeWorkers,      \* WorkerController.activeWorkers
    timers,             \* the interval timers created by start
    controllerNow,      \* Date.now() of the controller process
    liveWorkers,        \* per worker id: spawned processes that have not ended
    spawned,            \* history: processes spawned so far
    checks,             \* checkAndSpawnWorker calls of the timers in flight
    startChecks,        \* start calls awaiting their checkAndSpawnWorker
    stopPc,             \* where stop stands
    queueClosed,        \* queue.close() has completed
    startCalls,         \* history: calls of start so far
    \* ---- getModelMaxOutputTokens (src/shared/api.ts 74-121)
    tokenPc,            \* whether the function was called, and by whom
    tokenArgs,          \* its arguments: modelId, model, settings, format
    tokenResult         \* what it returned

taskVars == <<now, abort, abandoned, clineMessages, lastMessageTs, askResponse,
              blockingAsk, taskState, asks, ret, burst>>
disposeVars == <<released, rooIgnoreController, bridgeService, aborts, isPaused,
                 pauseInterval, waits>>

resumeVars == <<savedApiHistory, apiConversationHistory, nextUserContent, resumePc,
                resumedFrom>>

streamVars == <<streamPc, depth, assistantMessage, toolUseStreamed,
                userMessageContentReady, didRejectTool, didAlreadyUseTool, isStreaming,
                didFinishAbortingStream, apiReqCancelReason, reinitCount, didEndLoop,
                chunksSeen, requests, abortedAt, attempt, consecutiveMistakeCount,
                consecutiveMistakeLimit, userContent, noToolsUsedBlocks>>

mistakeVars == <<consecutiveMistakeCount, consecutiveMistakeLimit, userContent,
                 noToolsUsedBlocks>>

rateVars == <<lastGlobalApiRequestTime, rateLimitSeconds, requestDelaySeconds,
              autoRetry, rate>>

condenseVars == <<skipPrevResponseIdOnce, storedResponseId, isGpt5, condensePc,
                  lastMetadata, condensedSince, condenseRequests>>

storeVars == <<savedClineMessages, taskHistoryItem>>

subtaskVars == <<pausePc, mode, pausedModeSlug, roundWaited>>

\* the concerns around the request loop of one task
askTrack == <<delivered, slotSerial, issuedAfter, returned>>

runVars == <<runPc, taskStartedAt, taskFinishedAt, taskAbortedAt, taskTimedOut,
             rooTaskId, isClientDisconnected, slackThreadTs, callbackCalls, commands,
             runError>>

workerVars == <<isRunning, pollingInterval, activeWorkers, timers, controllerNow,
                liveWorkers, spawned, checks, startChecks, stopPc, queueClosed,
                startCalls>>

tokenVars == <<tokenPc, tokenArgs, tokenResult>>

outerVars == <<subtaskVars, askTrack, runVars, workerVars, tokenVars>>

\* what the ask/say specification leaves alone
nonTaskVars == <<resumeVars, streamVars, rateVars, condenseVars, storeVars, outerVars>>
\* what the resume specification leaves alone
nonResumeVars == <<taskVars, disposeVars, streamVars, rateVars, condenseVars, storeVars,
                   outerVars>>
\* what the request loop specification leaves alone
nonStreamVars == <<rateVars, condenseVars, storeVars, outerVars>>

vars == <<taskVars, disposeVars, resumeVars, streamVars, rateVars, condenseVars,
          storeVars, outerVars>>

----------------------------------------------------------------------------
(* Bounds of the model *)

\* Date.now() ranges over 1..MaxClock
MaxClock == 2
\* the UI log holds at most MaxMsgs entries
MaxMsgs == 2

\* lastMessageTs / askTs not assigned yet (undefined)
NoTs == 0

SayKinds == {"text", "api_req_retry_delayed"}
AskKinds == {"followup", "command_output"}
\* partial?: boolean, the three states of Task.ts 617-619
Partials == {"true", "false", "undefined"}
\* the two chains of the task that issue asks: the request loop itself and the
\* presentation of streamed blocks (presentAssistantMessage), which is not awaited
Callers == {"loop", "present"}
Responses == {"yesButtonClicked", "noButtonClicked", "messageResponse"}

Resources == {"terminals", "urlContentFetcher", "browserSession",
              "rooIgnoreController", "fileContextTracker", "bridgeService"}

----------------------------------------------------------------------------
(* The UI log: partial coalescing of ask and say *)

\* lastMessage && lastMessage.partial && lastMessage.type === type && lastMessage[type] === kind
IsUpdatingPreviousPartial(msgs, type, kind) ==
    /\ Len(msgs) > 0
    /\ msgs[Len(msgs)].partial = "true"
    /\ msgs[Len(msgs)].type = type
    /\ msgs[Len(msgs)].kind = kind

\* the entry a call appends: `partial` is written only by a partial=true call
NewMessage(type, kind, partial, t) ==
    [ts |-> t, type |-> type, kind |-> kind,
     partial |-> IF partial = "true" THEN "true" ELSE "undefined"]

\* a rewrite in place that stamps the entry with the time of the update
UpdatedLastRestamped(msgs, partial) ==
    [msgs EXCEPT ![Len(msgs)] = [@ EXCEPT !.partial = partial, !.ts = now]]

\* the trailing partial entry rewritten in place: ts is left as it is
UpdatedLast(msgs, partial) ==
    [msgs EXCEPT ![Len(msgs)] = [@ EXCEPT !.partial = partial]]

\* a say that does not finalize the trailing partial in place but appends
SayMessagesAppendFinal(msgs, kind, partial, t) ==
    IF partial = "true" /\ IsUpdatingPreviousPartial(msgs, "say", kind)
    THEN UpdatedLast(msgs, partial)
    ELSE Append(msgs, NewMessage("say", kind, partial, t))

\* clineMessages after say(kind, text, partial); the payload (text, images,
\* progressStatus, metadata) is not kept: no decision of the task reads it
SayMessages(msgs, kind, partial, t) ==
    IF partial # "undefined" /\ IsUpdatingPreviousPartial(msgs, "say", kind)
    THEN UpdatedLast(msgs, partial)
    ELSE Append(msgs, NewMessage("say", kind, partial, t))

\* a say that moves the watermark whether or not it is non-interactive
SayLastMessageTsAlways(msgs, lastTs, kind, partial, isNonInteractive, t) ==
    IF partial # "undefined" /\ IsUpdatingPreviousPartial(msgs, "say", kind)
    THEN IF partial = "true" THEN lastTs ELSE msgs[Len(msgs)].ts
    ELSE t

\* lastMessageTs after say(kind, text, partial, options)
SayLastMessageTs(msgs, lastTs, kind, partial, isNonInteractive, t) ==
    IF isNonInteractive THEN lastTs
    ELSE IF partial # "undefined" /\ IsUpdatingPreviousPartial(msgs, "say", kind)
         THEN IF partial = "true" THEN lastTs ELSE msgs[Len(msgs)].ts
         ELSE t

\* whether say appends an entry (the log is bounded in the model)
SayAppends(msgs, kind, partial) ==
    ~(partial # "undefined" /\ IsUpdatingPreviousPartial(msgs, "say", kind))

\* ask and say without the abort check
ThrowsNever(abortFlag) == FALSE

\* if (this.abort) throw, the first statement of ask and of say
ThrowsAborted(abortFlag) == abortFlag

----------------------------------------------------------------------------
(* say *)

NoRet == [op |-> "none", res |-> "none", response |-> "none"]
NoBurst == [active |-> FALSE, done |-> FALSE, kind |-> "none",
            startLen |-> 0, firstTs |-> NoTs]
IdleAsk == [pc |-> "idle", ts |-> NoTs, kind |-> "none"]

\* History of the current burst say(partial=true)* say(partial=false) of one
\* kind: where the log stood before its first call and the ts that call assigned.
BurstAfterSay(b, msgs, kind, partial, t) ==
    IF partial = "true"
    THEN IF b.active /\ b.kind = kind
         THEN b
         ELSE [active |-> TRUE, done |-> FALSE, kind |-> kind,
               startLen |-> Len(msgs), firstTs |-> t]
    ELSE IF partial = "false" /\ b.active /\ b.kind = kind
         THEN [b EXCEPT !.active = FALSE, !.done = TRUE]
         ELSE NoBurst

\* Task.say: the effect of one call on the log, the watermark and the caller
Say(kind, partial, isNonInteractive) ==
    IF ThrowsAborted(abort)
    THEN /\ ret' = [op |-> "say", res |-> "aborted", response |-> "none"]
         /\ UNCHANGED <<clineMessages, lastMessageTs, burst>>
    ELSE /\ clineMessages' = SayMessages(clineMessages, kind, partial, now)
         /\ lastMessageTs' = SayLastMessageTs(clineMessages, lastMessageTs, kind,
                                              partial, isNonInteractive, now)
         /\ ret' = [op |-> "say", res |-> "ok", response |-> "none"]
         /\ burst' = BurstAfterSay(burst, clineMessages, kind, partial, now)

SayCall ==
    \E kind \in SayKinds, partial \in Partials, ni \in BOOLEAN :
        /\ (~abort /\ SayAppends(clineMessages, kind, partial)) =>
               Len(clineMessages) < MaxMsgs
        /\ Say(kind, partial, ni)
        /\ UNCHANGED <<now, abort, abandoned, askResponse, blockingAsk, taskState,
                       asks, disposeVars, nonTaskVars>>

----------------------------------------------------------------------------
(* ask *)

\* isBlockingAsk(type) of @roo-code/types: the kinds that need a human decision
IsBlockingAsk(kind) == kind \in {"followup", "api_req_failed"}

\* the ts of the ask: the trailing partial's ts when it is finalized, else Date.now()
AskTs(msgs, kind, partial, t) ==
    IF partial = "false" /\ IsUpdatingPreviousPartial(msgs, "ask", kind)
    THEN msgs[Len(msgs)].ts
    ELSE t

\* clineMessages after ask(kind, text, partial)
AskMessages(msgs, kind, partial, t) ==
    IF partial # "undefined" /\ IsUpdatingPreviousPartial(msgs, "ask", kind)
    THEN UpdatedLast(msgs, partial)
    ELSE Append(msgs, NewMessage("ask", kind, partial, t))

AskAppends(msgs, kind, partial) ==
    ~(partial # "undefined" /\ IsUpdatingPreviousPartial(msgs, "ask", kind))

\* an ask whose partial branch falls through to the wait
AskPartialWaits(partial) == FALSE

\* if (partial): both arms of the partial branch end in a throw (Task.ts 647-667)
AskPartialIgnored(partial) == partial = "true"

\* an ask that leaves the response slot as it finds it
SlotKeptAtIssue(slot, partial) == slot

\* this.askResponse = undefined in the three terminal arms (Task.ts 671, 696, 705)
SlotAtIssue(slot, partial) == IF partial = "true" THEN slot ELSE "none"

\* Task.ask(kind, text, partial) up to its first suspension: abort check, partial
\* coalescing, and for a terminal ask the reset of the response slot (Task.ts 635-713)
Ask(i, kind, partial) ==
    /\ asks[i].pc = "idle"
    /\ IF ThrowsAborted(abort)
       THEN /\ ret' = [op |-> "ask", res |-> "aborted", response |-> "none"]
            /\ UNCHANGED <<clineMessages, lastMessageTs, askResponse, asks, burst>>
       ELSE /\ clineMessages' = AskMessages(clineMessages, kind, partial, now)
            /\ burst' = NoBurst
            /\ IF AskPartialIgnored(partial)
               THEN \* "Current ask promise was ignored (#1)" / "(#2)"
                    /\ lastMessageTs' =
                          IF IsUpdatingPreviousPartial(clineMessages, "ask", kind)
                          THEN lastMessageTs ELSE now
                    /\ ret' = [op |-> "ask", res |-> "ignored", response |-> "none"]
                    /\ UNCHANGED <<askResponse, asks>>
               ELSE /\ askResponse' = SlotAtIssue(askResponse, partial)
                    /\ lastMessageTs' =
                          IF partial = "true" /\ IsUpdatingPreviousPartial(clineMessages, "ask", kind)
                          THEN lastMessageTs
                          ELSE AskTs(clineMessages, kind, partial, now)
                    /\ asks' = [asks EXCEPT ![i] =
                          [pc |-> "saving", kind |-> kind,
                           ts |-> AskTs(clineMessages, kind, partial, now)]]
                    /\ ret' = [op |-> "ask", res |-> "pending", response |-> "none"]

AskCall(i) ==
    \E kind \in AskKinds, partial \in Partials :
        /\ (~abort /\ AskAppends(clineMessages, kind, partial)) =>
               Len(clineMessages) < MaxMsgs
        /\ Ask(i, kind, partial)
        /\ UNCHANGED <<now, abort, abandoned, blockingAsk, taskState, disposeVars,
                       nonTaskVars>>

\* Task.ts 715-724: isReady, blockingAsk and TaskIdle, then the wait begins
AskBeginWait(i) ==
    /\ asks[i].pc = "saving"
    /\ asks' = [asks EXCEPT ![i].pc = "waiting"]
    /\ IF /\ ~(askResponse # "none" \/ lastMessageTs # asks[i].ts)
          /\ IsBlockingAsk(asks[i].kind)
       THEN blockingAsk' = asks[i].kind /\ taskState' = "idle"
       ELSE UNCHANGED <<blockingAsk, taskState>>
    /\ ret' = NoRet
    /\ UNCHANGED <<now, abort, abandoned, clineMessages, lastMessageTs, askResponse,
                   burst, disposeVars, nonTaskVars>>

\* the pWaitFor condition of Task.ts 724
AskWaitOver(i) == askResponse # "none" \/ lastMessageTs # asks[i].ts

\* an ask that returns whatever the response slot holds when its wait ends
AskSupersededNever(lastTs, askTs) == FALSE

\* whether the ask that stopped waiting is reported as ignored (Task.ts 727)
AskSuperseded(lastTs, askTs) == lastTs # askTs

\* Task.ts 724-747: the wait ends; the ask is ignored or returns the response
AskResult(i) ==
    /\ asks[i].pc = "waiting"
    /\ AskWaitOver(i)
    /\ asks' = [asks EXCEPT ![i] = IdleAsk]
    /\ IF AskSuperseded(lastMessageTs, asks[i].ts)
       THEN /\ ret' = [op |-> "ask", res |-> "ignored", response |-> "none"]
            /\ UNCHANGED <<askResponse, blockingAsk, taskState>>
       ELSE /\ ret' = [op |-> "ask", res |-> "returned", response |-> askResponse]
            /\ askResponse' = "none"
            /\ IF blockingAsk # "none"
               THEN blockingAsk' = "none" /\ taskState' = "active"
               ELSE UNCHANGED <<blockingAsk, taskState>>

AskEndWait(i) ==
    /\ AskResult(i)
    /\ UNCHANGED <<now, abort, abandoned, clineMessages, lastMessageTs, burst,
                   disposeVars, nonTaskVars>>

\* this.askResponse = askResponse (Task.ts 754)
SetAskResponse(r) ==
    /\ askResponse' = r
    /\ ret' = NoRet

\* Task.handleWebviewAskResponse
HandleWebviewAskResponse ==
    \E r \in Responses :
        /\ SetAskResponse(r)
        /\ UNCHANGED <<now, abort, abandoned, clineMessages, lastMessageTs,
                       blockingAsk, taskState, asks, burst, disposeVars, nonTaskVars>>

----------------------------------------------------------------------------
(* abortTask and dispose *)

\* the release steps of dispose, in the order of the code
DisposeSteps == <<"bridgeService", "terminals", "urlContentFetcher", "browserSession",
                  "rooIgnoreController", "fileContextTracker">>

\* the release steps that fail in the model: one that dispose retries when it
\* runs again (the ignore controller stays set) and one that it does not
FailingSteps == {"terminals", "rooIgnoreController"}

\* a dispose that ends at the first release step that fails
StepsAttemptedUntilFailure(failing) ==
    {DisposeSteps[i] : i \in {j \in 1..Len(DisposeSteps) :
                                 \A k \in 1..(j - 1) : DisposeSteps[k] \notin failing}}

\* the release steps dispose reaches when those of `failing` fail: each step has
\* a try/catch of its own (the bridge unsubscription a .catch on its promise)
StepsAttempted(failing) ==
    {DisposeSteps[i] : i \in 1..Len(DisposeSteps)}

\* Task.dispose: the release calls made per resource.  The bridge subscription
\* and the ignore controller are released only when set.
ReleasedByDispose(rel, hasIgnore, hasBridge, failing) ==
    [r \in Resources |->
        IF r \notin StepsAttempted(failing) THEN rel[r]
        ELSE IF r = "rooIgnoreController" THEN (IF hasIgnore THEN rel[r] + 1 ELSE rel[r])
        ELSE IF r = "bridgeService" THEN (IF hasBridge THEN rel[r] + 1 ELSE rel[r])
        ELSE rel[r] + 1]

\* waitForResume calls made on one task in the model
MaxWaits == 2

\* a waitForResume call that was not made
NoWait == [timer |-> "unused", resolved |-> FALSE]

\* clearInterval(this.pauseInterval): the timer the field refers to is stopped
ClearInterval(w, interval) ==
    IF interval = 0 THEN w ELSE [w EXCEPT ![interval].timer = "cleared"]

\* Task.dispose when the release steps of `failing` fail: the pause timer is
\* stopped and forgotten, the bridge reference is cleared after the call, the
\* ignore controller only if its dispose returned
Dispose(failing) ==
    /\ waits' = ClearInterval(waits, pauseInterval)
    /\ pauseInterval' = 0
    /\ isPaused' = isPaused
    /\ released' = ReleasedByDispose(released, rooIgnoreController, bridgeService, failing)
    /\ rooIgnoreController' =
           (rooIgnoreController /\ ("rooIgnoreController" \in failing
                                       \/ "rooIgnoreController" \notin StepsAttempted(failing)))
    /\ bridgeService' = (bridgeService /\ "bridgeService" \notin StepsAttempted(failing))

\* no abortTask call was made
NoAborts == [emitted |-> 0, disposed |-> 0, saved |-> 0, completed |-> 0]

\* Task.abortTask(isAbandoned) when the release steps of `failing` fail: flags,
\* TaskAborted, dispose, saveClineMessages; what dispose throws and what
\* saveClineMessages rejects with is caught
AbortTask(isAbandoned, failing) ==
    \E saveFails \in BOOLEAN :
        /\ abandoned' = (abandoned \/ isAbandoned)
        /\ abort' = TRUE
        /\ aborts' = [emitted |-> aborts.emitted + 1,
                      disposed |-> aborts.disposed + 1,
                      saved |-> aborts.saved + 1,
                      completed |-> aborts.completed + 1]
        /\ Dispose(failing)

\* the user (through the provider) cancels the task, once per instance
UserAbort ==
    \E isAbandoned \in BOOLEAN :
        /\ ~abort
        /\ AbortTask(isAbandoned, {})
        /\ ret' = NoRet
        /\ UNCHANGED <<now, clineMessages, lastMessageTs, askResponse, blockingAsk,
                       taskState, asks, burst, nonTaskVars>>

\* time passes
Tick ==
    /\ now < MaxClock
    /\ now' = now + 1
    /\ ret' = NoRet
    /\ UNCHANGED <<abort, abandoned, clineMessages, lastMessageTs, askResponse,
                   blockingAsk, taskState, asks, burst, disposeVars, nonTaskVars>>

----------------------------------------------------------------------------
(* Spec: the ask/say protocol of one Task instance *)

TaskInit ==
    /\ now = 1
    /\ abort = FALSE
    /\ abandoned = FALSE
    /\ clineMessages = <<>>
    /\ lastMessageTs = NoTs
    /\ askResponse = "none"
    /\ blockingAsk = "none"
    /\ taskState = "active"
    /\ asks = [i \in Callers |-> IdleAsk]
    /\ ret = NoRet
    /\ burst = NoBurst

DisposeInit ==
    /\ released = [r \in Resources |-> 0]
    /\ rooIgnoreController = TRUE
    /\ bridgeService = TRUE
    /\ aborts = NoAborts
    /\ isPaused = FALSE
    /\ pauseInterval = 0
    /\ waits = [k \in 1..MaxWaits |-> NoWait]

\* the conversation of a task that was not resumed and has sent nothing yet
ResumeIdle ==
    /\ savedApiHistory = <<>>
    /\ apiConversationHistory = <<>>
    /\ nextUserContent = <<>>
    /\ resumePc = "none"
    /\ resumedFrom = <<>>

\* Task.ts 249-260: the streaming fields of a task whose loop has not started
NoAssistantMessage == [chunks |-> 0, note |-> "none"]
NotAborted == [pc |-> "never", toolPending |-> FALSE]
\* no createMessage call was made and no attempt ended the task
NoAttempt == [sent |-> 0, fatal |-> "none", sentAtFatal |-> 0]

LoopIdle ==
    /\ streamPc = "none"
    /\ depth = 0
    /\ assistantMessage = NoAssistantMessage
    /\ toolUseStreamed = FALSE
    /\ userMessageContentReady = FALSE
    /\ didRejectTool = FALSE
    /\ didAlreadyUseTool = FALSE
    /\ isStreaming = FALSE
    /\ didFinishAbortingStream = FALSE
    /\ apiReqCancelReason = "none"
    /\ reinitCount = 0
    /\ didEndLoop = "none"
    /\ chunksSeen = 0
    /\ requests = 0
    /\ abortedAt = NotAborted
    /\ attempt = NoAttempt
    /\ consecutiveMistakeCount = 0
    /\ userContent = "plain"
    /\ noToolsUsedBlocks = 0

\* a task whose loop has not started and that has no limit on mistakes
StreamIdle == LoopIdle /\ consecutiveMistakeLimit = 0

\* the instances of the process: a parent task and a sub-task it created
Tasks == {"parent", "sub"}

\* an instance that has not called attemptApiRequest
IdleRate == [pc |-> "idle", retryAttempt |-> 0, rateLimitDelay |-> 0, left |-> 0,
             deadline |-> 0, recorded |-> 0, prev |-> 0, issued |-> 0,
             sent |-> 0, msgs |-> <<>>, due |-> 0]

\* no request was made in the process: the static timestamp is undefined
RateIdle ==
    /\ lastGlobalApiRequestTime = 0
    /\ rateLimitSeconds = 0
    /\ requestDelaySeconds = 0
    /\ autoRetry = FALSE
    /\ rate = [t \in Tasks |-> IdleRate]

\* no createMessage call was made yet
NoMetadata == [sent |-> FALSE, previousResponseId |-> FALSE,
               suppressPreviousResponseId |-> FALSE, afterAuto |-> FALSE,
               afterManual |-> FALSE]
NotCondensed == [auto |-> FALSE, manual |-> FALSE]

\* Task.ts 264: skipPrevResponseIdOnce = false; a model that is not gpt-5
CondenseIdle ==
    /\ skipPrevResponseIdOnce = FALSE
    /\ storedResponseId = FALSE
    /\ isGpt5 = FALSE
    /\ condensePc = "none"
    /\ lastMetadata = NoMetadata
    /\ condensedSince = NotCondensed
    /\ condenseRequests = 0

\* the mode slugs of the model; defaultModeSlug is "code"
Modes == {"code", "architect"}

defaultModeSlug == "code"

\* no round of a parent task is under way
SubtaskIdle ==
    /\ pausePc = "none"
    /\ mode = defaultModeSlug
    /\ pausedModeSlug = defaultModeSlug
    /\ roundWaited = FALSE

\* no response was delivered yet
AskTrackIdle ==
    /\ delivered = 0
    /\ slotSerial = 0
    /\ issuedAfter = [i \in Callers |-> 0]
    /\ returned = <<>>

\* runTask was not called
RunIdle ==
    /\ runPc = "none"
    /\ taskStartedAt = NoTs
    /\ taskFinishedAt = NoTs
    /\ taskAbortedAt = NoTs
    /\ taskTimedOut = FALSE
    /\ rooTaskId = "undefined"
    /\ isClientDisconnected = FALSE
    /\ slackThreadTs = "null"
    /\ callbackCalls = <<>>
    /\ commands = <<>>
    /\ runError = "none"

\* controller.ts 9: private readonly MAX_WORKERS = 5
MAX_WORKERS == 5

\* Date.now() of the controller ranges over 1..MaxControllerClock
MaxControllerClock == 3
\* interval timers that exist at a time
MaxTimers == 2

NoTimer == [set |-> FALSE, lastFire |-> 0]

\* the WorkerController after its constructor
WorkersIdle ==
    /\ isRunning = FALSE
    /\ pollingInterval = 0
    /\ activeWorkers = {}
    /\ timers = [t \in 1..MaxTimers |-> NoTimer]
    /\ controllerNow = 1
    /\ liveWorkers = [id \in 1..MaxControllerClock |-> 0]
    /\ spawned = 0
    /\ checks = 0
    /\ startChecks = 0
    /\ stopPc = "none"
    /\ queueClosed = FALSE
    /\ startCalls = 0

\* getModelMaxOutputTokens returned undefined
NoBudget == -1

\* a model and settings with nothing set
NoTokenArgs ==
    [apiProvider |-> "other", claudeCodeMaxOutputTokens |-> 0, modelMaxTokens |-> 0,
     enableReasoningEffort |-> FALSE, requiredReasoningBudget |-> FALSE,
     supportsReasoningBudget |-> FALSE, modelId |-> "gpt-4", format |-> "undefined",
     maxTokens |-> 0, contextWindow |-> 0]

\* getModelMaxOutputTokens was not called
TokensIdle ==
    /\ tokenPc = "none"
    /\ tokenArgs = NoTokenArgs
    /\ tokenResult = NoBudget

OuterIdle == SubtaskIdle /\ AskTrackIdle /\ RunIdle /\ WorkersIdle /\ TokensIdle

\* nothing was saved yet
StoreIdle ==
    /\ savedClineMessages = <<>>
    /\ taskHistoryItem = 0

Init ==
    /\ TaskInit /\ DisposeInit /\ ResumeIdle /\ StreamIdle /\ RateIdle /\ CondenseIdle
    /\ StoreIdle /\ OuterIdle

Next ==
    \/ SayCall
    \/ \E i \in Callers : AskCall(i)
    \/ \E i \in Callers : AskBeginWait(i)
    \/ \E i \in Callers : AskEndWait(i)
    \/ HandleWebviewAskResponse
    \/ UserAbort
    \/ Tick

Spec == Init /\ [][Next]_vars

----------------------------------------------------------------------------
(* Properties of the ask/say protocol *)

\* C1: a burst say(partial=true)+ say(partial=false) of one kind, with no other
\* message appended in between, leaves exactly one entry in the UI log, with
\* partial = false and the ts that the first partial call assigned.
C1_BurstLeavesOneEntry ==
    burst.done =>
        /\ Len(clineMessages) = burst.startLen + 1
        /\ clineMessages[Len(clineMessages)].type = "say"
        /\ clineMessages[Len(clineMessages)].kind = burst.kind
        /\ clineMessages[Len(clineMessages)].partial = "false"
        /\ clineMessages[Len(clineMessages)].ts = burst.firstTs

\* a burst finalized later than it began, after an earlier message
C1_Witness ==
    /\ burst.done
    /\ burst.startLen > 0
    /\ burst.firstTs < now

\* C2: an ask or say call issued while abort is set throws at once, for every
\* kind and every value of partial: no ask starts waiting and neither the UI log
\* nor the lastMessageTs watermark (nor the response slot) changes.
C2_AbortedCallsFail ==
    [][(abort /\ (SayCall \/ \E i \in Callers : AskCall(i))) =>
          /\ ret'.res = "aborted"
          /\ UNCHANGED <<clineMessages, lastMessageTs, asks, askResponse,
                         blockingAsk>>]_vars

\* an ask was issued on an aborted task that already holds messages
C2_Witness ==
    /\ abort
    /\ ret.op = "ask"
    /\ ret.res = "aborted"
    /\ Len(clineMessages) > 0

\* C11: an ask call with partial = true on a live task never returns a response
\* and never enters the wait on the response slot: for every kind and every log
\* state it ends with the ignored error, the caller's ask stays idle and the
\* response slot and blockingAsk are left as they were; the log ends in a partial
\* ask of that kind.
C11_PartialAskIsIgnored ==
    [][\A i \in Callers, kind \in AskKinds :
          (~abort /\ Ask(i, kind, "true")) =>
              /\ ret'.res = "ignored"
              /\ UNCHANGED <<asks, askResponse, blockingAsk>>
              /\ IsUpdatingPreviousPartial(clineMessages', "ask", kind)]_vars

\* a partial ask was ignored after it updated the trailing partial of an earlier
\* call in place (the log kept its length and the first call's ts)
C11_Witness ==
    /\ ret.op = "ask"
    /\ ret.res = "ignored"
    /\ \A i \in Callers : asks[i].pc = "idle"
    /\ Len(clineMessages) = MaxMsgs
    /\ IsUpdatingPreviousPartial(clineMessages, "ask", "command_output")
    /\ clineMessages[Len(clineMessages)].ts < now

\* C12: a terminal ask returns a response only if, when its wait ends, the
\* lastMessageTs watermark still equals the ask's own ts; if the watermark was
\* changed while it waited, the ask ends as ignored, even when a response was
\* delivered in the meantime, and that response is not returned (it stays in the
\* slot).
C12_SupersededAskNeverReturns ==
    [][\A i \in Callers :
          AskEndWait(i) =>
              /\ (ret'.res = "returned" =>
                      /\ lastMessageTs = asks[i].ts
                      /\ ret'.response = askResponse
                      /\ askResponse \in Responses)
              /\ (lastMessageTs # asks[i].ts =>
                      /\ ret'.res = "ignored"
                      /\ ret'.response = "none"
                      /\ UNCHANGED askResponse)]_vars

\* a terminal ask ended as ignored although a response had been delivered
C12_Witness ==
    /\ ret.op = "ask"
    /\ ret.res = "ignored"
    /\ askResponse \in Responses
    /\ Len(clineMessages) > 0
    /\ clineMessages[Len(clineMessages)].partial # "true"

\* whether dispose has something to release for the resource
Held(r) ==
    IF r = "rooIgnoreController" THEN rooIgnoreController
    ELSE IF r = "bridgeService" THEN bridgeService
    ELSE TRUE

\* C18: abortTask(isAbandoned) always completes without throwing and leaves
\* abort = true (and, on an instance that was not abandoned yet, abandoned = true
\* iff requested): it emits the aborted notification, attempts every release
\* step of dispose even when earlier steps fail, and then persists the UI
\* messages, whose failure is swallowed as well.
C18_AbortTaskAlwaysCompletes ==
    [][\A isAbandoned \in BOOLEAN, failing \in SUBSET FailingSteps :
          AbortTask(isAbandoned, failing) =>
              /\ abort'
              /\ ~abandoned => (abandoned' <=> isAbandoned)
              /\ aborts'.emitted = aborts.emitted + 1
              /\ \A r \in Resources :
                     released'[r] = released[r] + (IF Held(r) THEN 1 ELSE 0)
              /\ aborts'.saved = aborts.saved + 1
              /\ aborts'.completed = aborts.completed + 1]_vars

\* an abandoning abortTask has completed although the release of the ignore
\* controller failed (it is still set): the step after it was attempted
C18_Witness ==
    /\ abort
    /\ abandoned
    /\ aborts.completed = 1
    /\ aborts.saved = 1
    /\ rooIgnoreController
    /\ released["rooIgnoreController"] = 1
    /\ released["fileContextTracker"] = 1

\* C13: blockingAsk is set only while the task is suspended in a terminal ask of
\* a blocking kind: every way of leaving the wait clears it, so whenever
\* blockingAsk is set some ask of that kind is waiting.
C13_BlockingAskOnlyWhileWaiting ==
    blockingAsk # "none" =>
        \E i \in Callers : asks[i].pc = "waiting" /\ asks[i].kind = blockingAsk

----------------------------------------------------------------------------
(* resumeTaskFromHistory: the saved API history made resumable *)

\* saved conversations of at most MaxHistory turns of at most MaxBlocks blocks
MaxHistory == 2
MaxBlocks == 2

ToolIds == {"toolu_a", "toolu_b"}
\* ApiMessage.role is "user" | "assistant"; a file on disk may hold anything
Roles == {"user", "assistant", "system"}

TextBlock(text) == [type |-> "text", id |-> "none", text |-> text]
ToolUseBlock(id) == [type |-> "tool_use", id |-> id, text |-> "input"]
ToolResultBlock(id, text) == [type |-> "tool_result", id |-> id, text |-> text]

\* content of at most n blocks over a set of blocks, no block twice
ContentsOver(blocks, n) ==
    {c \in UNION {[1..k -> blocks] : k \in 0..n} :
        \A i, j \in DOMAIN c : i # j => c[i] # c[j]}

\* the turns a saved history may hold: tool calls in assistant turns, tool
\* results in user turns
SavedMessages ==
    {[role |-> "assistant", content |-> c] :
        c \in ContentsOver({TextBlock("plain")} \cup {ToolUseBlock(i) : i \in ToolIds},
                           MaxBlocks) \ {<<>>}}
    \cup
    {[role |-> "user", content |-> c] :
        c \in ContentsOver({TextBlock("plain")}
                           \cup {ToolResultBlock(i, "result") : i \in ToolIds},
                           MaxBlocks) \ {<<>>}}
    \cup
    {[role |-> "system", content |-> <<TextBlock("plain")>>]}

SavedHistories == UNION {[1..n -> SavedMessages] : n \in 0..MaxHistory}

InterruptedText == "Task was interrupted before this tool call could be completed."

\* Task.ts 1141-1172: every tool_use and tool_result block becomes a text block
BlockWithoutTool(block) ==
    IF block.type = "tool_use" THEN TextBlock("tool_use_as_xml")
    ELSE IF block.type = "tool_result" THEN TextBlock("tool_result_as_text")
    ELSE block

conversationWithoutToolBlocks(history) ==
    [i \in DOMAIN history |->
        [history[i] EXCEPT !.content =
            [j \in DOMAIN history[i].content |-> BlockWithoutTool(history[i].content[j])]]]

IsToolUse(block) == block.type = "tool_use"
IsToolResult(block) == block.type = "tool_result"

\* one "interrupted" tool_result per tool_use block given
InterruptedResponses(toolUseBlocks) ==
    [i \in DOMAIN toolUseBlocks |-> ToolResultBlock(toolUseBlocks[i].id, InterruptedText)]

\* Task.ts 1230-1238: the tool uses with no result among the existing ones
MissingToolResponses(toolUseBlocks, existingToolResults) ==
    LET Unanswered(toolUse) ==
            ~\E k \in DOMAIN existingToolResults :
                existingToolResults[k].id = toolUse.id
    IN  InterruptedResponses(SelectSeq(toolUseBlocks, Unanswered))

\* a resume that goes on whatever the role of the last message is
ResumeOutcomeAnyRole(existing) ==
    IF Len(existing) = 0 THEN "no_history" ELSE "ok"

\* Task.ts 1185-1255: "ok" or the unexpected-state error
ResumeOutcome(existing) ==
    IF Len(existing) = 0 THEN "no_history"
    ELSE IF existing[Len(existing)].role \in {"assistant", "user"} THEN "ok"
    ELSE "bad_role"

\* Task.ts 1183-1249: modifiedOldUserContent
modifiedOldUserContent(existing) ==
    LET lastMessage == existing[Len(existing)]
    IN  IF lastMessage.role = "assistant"
        THEN InterruptedResponses(SelectSeq(lastMessage.content, IsToolUse))
        ELSE IF Len(existing) >= 2 /\ existing[Len(existing) - 1].role = "assistant"
             THEN lastMessage.content \o
                  MissingToolResponses(
                      SelectSeq(existing[Len(existing) - 1].content, IsToolUse),
                      SelectSeq(lastMessage.content, IsToolResult))
             ELSE lastMessage.content

\* Task.ts 1183-1249: modifiedApiConversationHistory
modifiedApiConversationHistory(existing) ==
    IF existing[Len(existing)].role = "assistant"
    THEN existing
    ELSE SubSeq(existing, 1, Len(existing) - 1)

\* Task.ts 1257-1297: newUserContent
newUserContent(existing, hasResponseText) ==
    LET withText == modifiedOldUserContent(existing) \o
                    (IF hasResponseText THEN <<TextBlock("new_instructions")>> ELSE <<>>)
    IN  IF withText = <<>> THEN <<TextBlock("task_resumption")>> ELSE withText

\* Task.ts 1138-1173: the saved history as resumeTaskFromHistory goes on with it
existingApiConversationHistory(saved) == conversationWithoutToolBlocks(saved)

\* Task.ts 1109: the saved history is loaded before the user is asked to resume
ResumeLoad ==
    /\ resumePc = "start"
    /\ apiConversationHistory' = savedApiHistory
    /\ resumedFrom' = savedApiHistory
    /\ resumePc' = "asking"
    /\ UNCHANGED <<savedApiHistory, nextUserContent, nonResumeVars>>

\* Task.ts 1125-1303: the resume ask is answered; the history is rebuilt and
\* overwritten (in memory and on disk), or the unexpected-state error is thrown
ResumeAnswered ==
    \E response \in Responses, hasText \in BOOLEAN :
        LET existing == existingApiConversationHistory(savedApiHistory)
        IN  /\ resumePc = "asking"
            /\ IF ResumeOutcome(existing) = "ok"
               THEN /\ apiConversationHistory' = modifiedApiConversationHistory(existing)
                    /\ savedApiHistory' = modifiedApiConversationHistory(existing)
                    /\ nextUserContent' =
                          newUserContent(existing, response = "messageResponse" /\ hasText)
                    /\ resumePc' = "loop"
               ELSE /\ resumePc' = "threw"
                    /\ UNCHANGED <<apiConversationHistory, savedApiHistory, nextUserContent>>
            /\ UNCHANGED <<resumedFrom, nonResumeVars>>

\* Task.ts 1539-1545: the first round after the resume appends its user turn,
\* the content handed over followed by the environment details
ResumeFirstUserTurn ==
    /\ resumePc = "loop"
    /\ apiConversationHistory' =
          Append(apiConversationHistory,
                 [role |-> "user",
                  content |-> nextUserContent \o <<TextBlock("environment_details")>>])
    /\ savedApiHistory' = apiConversationHistory'
    /\ resumePc' = "sent"
    /\ UNCHANGED <<nextUserContent, resumedFrom, nonResumeVars>>

ResumeInit ==
    /\ savedApiHistory \in SavedHistories
    /\ apiConversationHistory = <<>>
    /\ nextUserContent = <<>>
    /\ resumePc = "start"
    /\ resumedFrom = <<>>

InitResume ==
    /\ TaskInit /\ DisposeInit /\ ResumeInit /\ StreamIdle /\ RateIdle /\ CondenseIdle
    /\ StoreIdle /\ OuterIdle

NextResume ==
    \/ ResumeLoad
    \/ ResumeAnswered
    \/ ResumeFirstUserTurn

SpecResume == InitResume /\ [][NextResume]_vars

\* the ids of the tool uses of the last assistant turn that have no tool result
UnansweredToolUses(history) ==
    IF Len(history) = 0 THEN {}
    ELSE LET lastMessage == history[Len(history)]
             UseIds(m) == {m.content[k].id : k \in {j \in DOMAIN m.content :
                                                       m.content[j].type = "tool_use"}}
             ResultIds(m) == {m.content[k].id : k \in {j \in DOMAIN m.content :
                                                       m.content[j].type = "tool_result"}}
         IN  IF lastMessage.role = "assistant" THEN UseIds(lastMessage)
             ELSE IF lastMessage.role = "user" /\ Len(history) >= 2
                     /\ history[Len(history) - 1].role = "assistant"
                  THEN UseIds(history[Len(history) - 1]) \ ResultIds(lastMessage)
                  ELSE {}

\* the number of "interrupted" tool results for a tool use id in the conversation
InterruptedCount(history, id) ==
    Cardinality({<<i, j>> \in (DOMAIN history) \X (1..(MaxBlocks + 3)) :
                    /\ j \in DOMAIN history[i].content
                    /\ history[i].content[j] = ToolResultBlock(id, InterruptedText)})

\* C3: when the first request after a resume is built, the conversation holds
\* exactly one synthesized "interrupted" tool result for each tool use that the
\* saved history left unanswered, and none for the others.
C3_InterruptedResultPerUnansweredToolUse ==
    resumePc = "sent" =>
        \A id \in ToolIds :
            InterruptedCount(apiConversationHistory, id) =
                (IF id \in UnansweredToolUses(resumedFrom) THEN 1 ELSE 0)

\* the saved history cannot be resumed: it is empty, or its last message is
\* neither a user nor an assistant message
Unresumable(saved) ==
    \/ Len(saved) = 0
    \/ saved[Len(saved)].role \notin {"user", "assistant"}

\* C33: resumeTaskFromHistory fails loudly when the saved API history is empty
\* or its last message has a role other than user or assistant: the error is
\* raised, the saved API history is not overwritten, no user content is handed
\* to the request loop and the loop is never entered.
C33_UnresumableHistoryFailsLoudly ==
    /\ [](resumePc = "threw" => /\ Unresumable(resumedFrom)
                                 /\ savedApiHistory = resumedFrom
                                 /\ nextUserContent = <<>>)
    /\ [][/\ (resumePc = "asking" /\ Unresumable(savedApiHistory) /\ resumePc' # resumePc)
                  => (resumePc' = "threw" /\ savedApiHistory' = savedApiHistory)
           /\ (resumePc = "threw" => resumePc' = "threw")]_vars

\* the resume of a history that ends with a message of another role threw
C33_Witness ==
    /\ resumePc = "threw"
    /\ Len(resumedFrom) > 0
    /\ resumedFrom[Len(resumedFrom)].role = "system"
    /\ savedApiHistory = resumedFrom

----------------------------------------------------------------------------
(* SpecStream: initiateTaskLoop and recursivelyMakeClineRequests of one task *)

\* calls of recursivelyMakeClineRequests one task makes in the model
MaxRequests == 2
\* chunks one response stream yields at most
MaxChunks == 2
\* createMessage calls a task (in SpecRate: the process) makes in the model
MaxCalls == 2
\* consecutiveMistakeLimit ranges over 0..MaxMistakeLimit
MaxMistakeLimit == 1

\* variables no step of the request loop writes
streamQuiet == <<now, askResponse, blockingAsk, taskState, asks,
                 savedApiHistory, nextUserContent, resumePc, resumedFrom, nonStreamVars>>

\* assistantMessage + "\n\n[Response interrupted by API Error|user]"
InterruptedAssistantText(msg, cancelReason) ==
    [body |-> msg,
     interrupted |-> IF cancelReason = "streaming_failed" THEN "api_error" ELSE "user"]

\* the text of a response that was read to its end (or to a tool interruption)
CompleteAssistantText(msg) == [body |-> msg, interrupted |-> "none"]

\* "Failure: I did not provide a response."
FailureText == [body |-> "failure", interrupted |-> "none"]

AssistantTurn(text) == [role |-> "assistant", content |-> <<TextBlock(text)>>]

\* the user turn of a round: finalUserContent (user content and environment details)
UserTurn == [role |-> "user", content |-> <<TextBlock("finalUserContent")>>]

\* whether an API turn is one that abortStream wrote
IsInterruptedTurn(m) ==
    /\ m.role = "assistant"
    /\ m.content[1].text.interrupted # "none"

\* abortStream: the trailing partial entry of the UI log is finalized
AbortStreamMessages(msgs) ==
    IF Len(msgs) > 0 /\ msgs[Len(msgs)].partial = "true"
    THEN UpdatedLast(msgs, "false")
    ELSE msgs

\* an abortStream that neither persists the interrupted turn nor signals its end
AbortStreamUnfinished(msg, cancelReason) ==
    /\ clineMessages' = AbortStreamMessages(clineMessages)
    /\ apiConversationHistory' = apiConversationHistory
    /\ apiReqCancelReason' = cancelReason
    /\ didFinishAbortingStream' = didFinishAbortingStream

\* abortStream(cancelReason) with the assistant text streamed so far
AbortStream(msg, cancelReason) ==
    /\ clineMessages' = AbortStreamMessages(clineMessages)
    /\ apiConversationHistory' =
           Append(apiConversationHistory,
                  AssistantTurn(InterruptedAssistantText(msg, cancelReason)))
    /\ apiReqCancelReason' = cancelReason
    /\ didFinishAbortingStream' = TRUE

\* every frame of recursivelyMakeClineRequests returns: the outer catch turns a
\* throw into true, and a frame returns what the frame it called returned
Returns(result) ==
    /\ streamPc' = "returned"
    /\ didEndLoop' = result
    /\ depth' = 0

\* a throw before the try block leaves the called frame; the calling frame, if
\* there is one, catches it in its outer catch, else initiateTaskLoop rejects
ThrowsBeforeTry ==
    IF depth > 0
    THEN Returns("true")
    ELSE /\ streamPc' = "threw"
         /\ UNCHANGED <<didEndLoop, depth>>

\* initiateTaskLoop: while (!this.abort) and the first call, whose own abort
\* check runs in the same turn of the event loop
InitiateTaskLoop ==
    /\ streamPc = "none"
    /\ IF abort
       THEN streamPc' = "exited" /\ UNCHANGED requests
       ELSE streamPc' = "preparing" /\ requests' = 1
    /\ UNCHANGED <<streamQuiet, abort, abandoned, clineMessages, lastMessageTs, ret,
                   burst, disposeVars, apiConversationHistory, depth, assistantMessage,
                   toolUseStreamed, userMessageContentReady, didRejectTool,
                   didAlreadyUseTool, isStreaming, didFinishAbortingStream,
                   apiReqCancelReason, reinitCount, didEndLoop, chunksSeen, abortedAt,
                   attempt, mistakeVars>>

\* variables neither the request loop nor the calls it makes write
loopQuiet == <<now, savedApiHistory, nextUserContent, resumePc, resumedFrom, nonStreamVars>>

\* the streaming fields a step of attemptApiRequest leaves alone
roundFields == <<assistantMessage, toolUseStreamed, userMessageContentReady,
                 didRejectTool, didAlreadyUseTool, chunksSeen, requests, abortedAt>>

\* what the stream catch and the statements after it write (CatchStreamFailure)
catchFields == <<abort, abandoned, disposeVars, apiConversationHistory,
                 apiReqCancelReason, didFinishAbortingStream, reinitCount, isStreaming,
                 didEndLoop, depth>>

\* a loop that never consults the user about repeated mistakes
MistakeLimitNeverReached == FALSE

\* if (this.consecutiveMistakeLimit > 0 && this.consecutiveMistakeCount >= this.consecutiveMistakeLimit)
MistakeLimitReached ==
    /\ consecutiveMistakeLimit > 0
    /\ consecutiveMistakeCount >= consecutiveMistakeLimit

\* the user turn of a round whose content holds formatResponse.tooManyMistakes(text)
UserTurnWithGuidance ==
    [role |-> "user",
     content |-> <<TextBlock("finalUserContent"), TextBlock("tooManyMistakes")>>]

\* the positions of the loop inside a run of statements with no await between
\* them: no other handler of the task runs there
InSynchronousBlock == streamPc \in {"preparing", "sayFeedback", "retrying"}

\* Task.ts 1456-1460: the limit is reached when the frame begins, and the
\* loop asks for guidance
RoundMistakeLimit ==
    /\ streamPc = "preparing"
    /\ MistakeLimitReached
    /\ Ask("loop", "mistake_limit_reached", "undefined")
    /\ streamPc' = "askMistake"
    /\ UNCHANGED <<loopQuiet, roundFields, catchFields, blockingAsk, taskState, attempt,
                   mistakeVars>>

\* Task.ts 1457-1476: the mistake_limit_reached ask stops waiting.  An ignored
\* ask throws out of the frame, a message response is spliced into the content
\* and echoed by a say, any other response resets the counter at once
RoundMistakeAnswered ==
    /\ streamPc = "askMistake"
    /\ AskWaitOver("loop")
    /\ AskResult("loop")
    /\ IF ret'.res = "ignored"
       THEN /\ ThrowsBeforeTry
            /\ UNCHANGED <<consecutiveMistakeCount, userContent>>
       ELSE IF ret'.response = "messageResponse"
       THEN /\ userContent' = "guided"
            /\ streamPc' = "sayFeedback"
            /\ UNCHANGED <<consecutiveMistakeCount, didEndLoop, depth>>
       ELSE \* no await before say("api_req_started"): the frame goes on at once
            /\ consecutiveMistakeCount' = 0
            /\ streamPc' = "preparing"
            /\ UNCHANGED <<userContent, didEndLoop, depth>>
    /\ UNCHANGED <<loopQuiet, roundFields, abort, abandoned, disposeVars,
                   apiConversationHistory, apiReqCancelReason, didFinishAbortingStream,
                   reinitCount, isStreaming, clineMessages, lastMessageTs, burst,
                   attempt, consecutiveMistakeLimit, noToolsUsedBlocks>>

\* Task.ts 1470-1476: say("user_feedback", text, images), which throws out of
\* the frame on an aborted task, and the reset of the counter
RoundSayFeedback ==
    /\ streamPc = "sayFeedback"
    /\ Say("user_feedback", "undefined", FALSE)
    /\ IF ThrowsAborted(abort)
       THEN /\ ThrowsBeforeTry
            /\ UNCHANGED consecutiveMistakeCount
       ELSE /\ consecutiveMistakeCount' = 0
            /\ streamPc' = "started"
            /\ UNCHANGED <<didEndLoop, depth>>
    /\ UNCHANGED <<loopQuiet, roundFields, abort, abandoned, disposeVars,
                   apiConversationHistory, apiReqCancelReason, didFinishAbortingStream,
                   reinitCount, isStreaming, askResponse, blockingAsk, taskState, asks,
                   attempt, consecutiveMistakeLimit, userContent, noToolsUsedBlocks>>

\* the part of recursivelyMakeClineRequests before its try block, from the
\* api_req_started entry on: the user turn and the reset of the streaming state
RoundPrepare ==
    /\ \/ streamPc = "preparing" /\ ~MistakeLimitReached
       \/ streamPc = "started"
    /\ Say("api_req_started", "undefined", FALSE)
    /\ IF ThrowsAborted(abort)
       THEN /\ ThrowsBeforeTry
            /\ UNCHANGED <<apiConversationHistory, assistantMessage, toolUseStreamed,
                           userMessageContentReady, didRejectTool, didAlreadyUseTool,
                           isStreaming, chunksSeen, userContent, noToolsUsedBlocks>>
       ELSE /\ apiConversationHistory' =
                   Append(apiConversationHistory,
                          IF userContent = "guided" THEN UserTurnWithGuidance ELSE UserTurn)
            /\ userContent' = "plain"
            /\ noToolsUsedBlocks' = 0
            /\ assistantMessage' = NoAssistantMessage
            /\ toolUseStreamed' = FALSE
            /\ userMessageContentReady' = FALSE
            /\ didRejectTool' = FALSE
            /\ didAlreadyUseTool' = FALSE
            /\ isStreaming' = TRUE
            /\ chunksSeen' = 0
            /\ streamPc' = "requesting"
            /\ UNCHANGED <<didEndLoop, depth>>
    /\ UNCHANGED <<streamQuiet, abort, abandoned, disposeVars, didFinishAbortingStream,
                   apiReqCancelReason, reinitCount, requests, abortedAt, attempt,
                   consecutiveMistakeCount, consecutiveMistakeLimit>>

\* an instance that aborts its stream gracefully whether or not it is abandoned
GracefulAbortAlways(isAbandoned) == TRUE

\* if (!this.abandoned): only an instance that is not abandoned aborts the
\* stream gracefully (Task.ts 1713, 1749)
GracefulAbort(isAbandoned) == ~isAbandoned

\* a loop that goes on reading after a tool was used
AfterChunkKeepsReading(msg) ==
    IF abort
    THEN /\ IF abandoned
            THEN UNCHANGED <<clineMessages, apiConversationHistory, apiReqCancelReason,
                             didFinishAbortingStream>>
            ELSE AbortStream(msg, "user_cancelled")
         /\ assistantMessage' = msg
         /\ isStreaming' = FALSE
         /\ Returns("true")
    ELSE /\ UNCHANGED <<clineMessages, apiConversationHistory, apiReqCancelReason,
                        didFinishAbortingStream>>
         /\ IF didRejectTool
            THEN /\ assistantMessage' = [msg EXCEPT !.note = "user_feedback"]
                 /\ isStreaming' = FALSE
                 /\ streamPc' = "completed"
            ELSE /\ assistantMessage' = msg
                 /\ UNCHANGED <<isStreaming, streamPc>>
         /\ UNCHANGED <<didEndLoop, depth>>

\* the checks that follow the switch on the chunk type, and the statements
\* after the loop when one of them breaks out of it
AfterChunk(msg) ==
    IF abort
    THEN /\ IF ~GracefulAbort(abandoned)
            THEN UNCHANGED <<clineMessages, apiConversationHistory, apiReqCancelReason,
                             didFinishAbortingStream>>
            ELSE AbortStream(msg, "user_cancelled")
         /\ assistantMessage' = msg
         /\ isStreaming' = FALSE
         /\ Returns("true")
    ELSE /\ UNCHANGED <<clineMessages, apiConversationHistory, apiReqCancelReason,
                        didFinishAbortingStream>>
         /\ IF didRejectTool
            THEN /\ assistantMessage' = [msg EXCEPT !.note = "user_feedback"]
                 /\ isStreaming' = FALSE
                 /\ streamPc' = "completed"
            ELSE IF didAlreadyUseTool
            THEN /\ assistantMessage' = [msg EXCEPT !.note = "tool_use_result"]
                 /\ isStreaming' = FALSE
                 /\ streamPc' = "completed"
            ELSE /\ assistantMessage' = msg
                 /\ UNCHANGED <<isStreaming, streamPc>>
         /\ UNCHANGED <<didEndLoop, depth>>

\* case "text": the chunk is added to assistantMessage and parsed into blocks;
\* isToolUse: the chunk opens a tool_use block
ChunkText ==
    \E isToolUse \in BOOLEAN :
        /\ streamPc = "streaming"
        /\ chunksSeen < MaxChunks
        /\ chunksSeen' = chunksSeen + 1
        /\ toolUseStreamed' = (toolUseStreamed \/ isToolUse)
        /\ userMessageContentReady' =
               IF isToolUse \/ assistantMessage.chunks = 0
               THEN FALSE ELSE userMessageContentReady
        /\ AfterChunk([assistantMessage EXCEPT !.chunks = @ + 1])
        /\ UNCHANGED <<streamQuiet, abort, abandoned, lastMessageTs, ret, burst,
                       disposeVars, didRejectTool, didAlreadyUseTool, reinitCount,
                       requests, abortedAt, attempt, mistakeVars>>

\* case "usage": token counts only
ChunkUsage ==
    /\ streamPc = "streaming"
    /\ chunksSeen < MaxChunks
    /\ chunksSeen' = chunksSeen + 1
    /\ AfterChunk(assistantMessage)
    /\ UNCHANGED <<streamQuiet, abort, abandoned, lastMessageTs, ret, burst,
                   disposeVars, toolUseStreamed, userMessageContentReady, didRejectTool,
                   didAlreadyUseTool, reinitCount, requests, abortedAt, attempt, mistakeVars>>

\* a catch that reports every failure as a failure of the stream
CancelReasonAlwaysFailed(abortFlag) == "streaming_failed"

\* const cancelReason = this.abort ? "user_cancelled" : "streaming_failed",
\* evaluated before abortTask sets the flag
CancelReason(abortFlag) == IF abortFlag THEN "user_cancelled" ELSE "streaming_failed"

\* the catch of the stream loop, then finally, then the abort check after it:
\* an instance that is not abandoned aborts itself, persists the interrupted
\* turn and asks the provider for a new instance; the check then throws
CatchStreamFailure ==
    /\ IF ~GracefulAbort(abandoned)
       THEN UNCHANGED <<abort, abandoned, disposeVars, clineMessages,
                        apiConversationHistory, apiReqCancelReason,
                        didFinishAbortingStream, reinitCount>>
       ELSE /\ AbortTask(FALSE, {})
            /\ AbortStream(assistantMessage, CancelReason(abort))
            /\ reinitCount' = reinitCount + 1
    /\ isStreaming' = FALSE
    /\ Returns("true")

\* case "reasoning": say("reasoning", reasoningMessage, undefined, true), which
\* throws into the catch when the task is aborted
ChunkReasoning ==
    /\ streamPc = "streaming"
    /\ chunksSeen < MaxChunks
    /\ chunksSeen' = chunksSeen + 1
    /\ IF ThrowsAborted(abort)
       THEN /\ ret' = [op |-> "say", res |-> "aborted", response |-> "none"]
            /\ CatchStreamFailure
            /\ UNCHANGED <<lastMessageTs, burst, assistantMessage>>
       ELSE /\ Say("reasoning", "true", FALSE)
            /\ IF didRejectTool
               THEN /\ assistantMessage' = [assistantMessage EXCEPT !.note = "user_feedback"]
                    /\ isStreaming' = FALSE
                    /\ streamPc' = "completed"
               ELSE IF didAlreadyUseTool
               THEN /\ assistantMessage' = [assistantMessage EXCEPT !.note = "tool_use_result"]
                    /\ isStreaming' = FALSE
                    /\ streamPc' = "completed"
               ELSE UNCHANGED <<assistantMessage, isStreaming, streamPc>>
            /\ UNCHANGED <<abort, abandoned, disposeVars, apiConversationHistory,
                           apiReqCancelReason, didFinishAbortingStream, reinitCount,
                           didEndLoop, depth>>
    /\ UNCHANGED <<streamQuiet, toolUseStreamed, userMessageContentReady, didRejectTool,
                   didAlreadyUseTool, requests, abortedAt, attempt, mistakeVars>>

\* the stream is exhausted: the loop ends, finally, and the abort check at 1797
StreamEnd ==
    /\ streamPc = "streaming"
    /\ isStreaming' = FALSE
    /\ IF abort \/ abandoned
       THEN Returns("true")
       ELSE streamPc' = "completed" /\ UNCHANGED <<didEndLoop, depth>>
    /\ UNCHANGED <<streamQuiet, abort, abandoned, clineMessages, lastMessageTs, ret,
                   burst, disposeVars, apiConversationHistory, assistantMessage,
                   toolUseStreamed, userMessageContentReady, didRejectTool,
                   didAlreadyUseTool, didFinishAbortingStream, apiReqCancelReason,
                   reinitCount, chunksSeen, requests, abortedAt, attempt, mistakeVars>>

\* the stream throws: a failed request that is not retried, or a transport error
StreamError ==
    /\ streamPc = "streaming"
    /\ CatchStreamFailure
    /\ UNCHANGED <<streamQuiet, lastMessageTs, ret, burst, assistantMessage,
                   toolUseStreamed, userMessageContentReady, didRejectTool,
                   didAlreadyUseTool, chunksSeen, requests, abortedAt, attempt, mistakeVars>>

\* assistantMessage.length > 0: text chunks, or a note appended after a tool
HasAssistantText(msg) == msg.chunks > 0 \/ msg.note # "none"

\* an empty response that ends the loop
EmptyResponseEndsLoop == "true"

\* let didEndLoop = false, which the empty-response branch does not assign
EmptyResponseDidEndLoop == "false"

\* after a stream read to its end: the assistant turn is persisted, or an empty
\* response is reported and answered with a failure turn
RoundPersist ==
    /\ streamPc = "completed"
    /\ IF HasAssistantText(assistantMessage)
       THEN /\ apiConversationHistory' =
                   Append(apiConversationHistory,
                          AssistantTurn(CompleteAssistantText(assistantMessage)))
            /\ streamPc' = "waitReady"
            /\ UNCHANGED <<clineMessages, lastMessageTs, ret, burst, didEndLoop, depth>>
       ELSE /\ Say("error", "undefined", FALSE)
            /\ IF ThrowsAborted(abort)
               THEN Returns("true") /\ UNCHANGED apiConversationHistory
               ELSE /\ apiConversationHistory' =
                           Append(apiConversationHistory, AssistantTurn(FailureText))
                    /\ Returns(EmptyResponseDidEndLoop)
    /\ UNCHANGED <<streamQuiet, abort, abandoned, disposeVars, assistantMessage,
                   toolUseStreamed, userMessageContentReady, didRejectTool,
                   didAlreadyUseTool, isStreaming, didFinishAbortingStream,
                   apiReqCancelReason, reinitCount, chunksSeen, requests, abortedAt, attempt, mistakeVars>>

PresentOutcomes == {"ready", "rejected", "used"}

\* presentAssistantMessage, which the loop starts and does not await: it marks
\* the user content ready, or records that a tool was rejected or was used
PresentAssistantMessage ==
    \E outcome \in PresentOutcomes :
        /\ streamPc \in {"streaming", "completed", "waitReady"}
        /\ ~abort
        /\ assistantMessage.chunks > 0
        /\ outcome # "ready" => toolUseStreamed /\ ~didRejectTool /\ ~didAlreadyUseTool
        /\ userMessageContentReady' = (userMessageContentReady \/ outcome = "ready")
        /\ didRejectTool' = (didRejectTool \/ outcome = "rejected")
        /\ didAlreadyUseTool' = (didAlreadyUseTool \/ outcome = "used")
        /\ UNCHANGED <<streamQuiet, abort, abandoned, clineMessages, lastMessageTs, ret,
                       burst, disposeVars, apiConversationHistory, streamPc, depth,
                       assistantMessage, toolUseStreamed, isStreaming,
                       didFinishAbortingStream, apiReqCancelReason, reinitCount,
                       didEndLoop, chunksSeen, requests, abortedAt, attempt, mistakeVars>>

\* a wait that ends whether or not the user content is ready
ContentReadyAlways(ready) == TRUE

\* the condition of pWaitFor(() => this.userMessageContentReady)
ContentReady(ready) == ready

\* a loop that counts a round without tool use twice
MistakesAfterRoundTwice(count, didToolUse) == IF didToolUse THEN count ELSE count + 2

\* if (!didToolUse) this.consecutiveMistakeCount++
MistakesAfterRound(count, didToolUse) == IF didToolUse THEN count ELSE count + 1

\* pWaitFor(() => this.userMessageContentReady) resolves; a response without a
\* tool use counts as a mistake; the frame calls recursivelyMakeClineRequests,
\* whose abort check throws into this frame's catch
WaitReadyOver ==
    /\ streamPc = "waitReady"
    /\ ContentReady(userMessageContentReady)
    /\ consecutiveMistakeCount' = MistakesAfterRound(consecutiveMistakeCount, toolUseStreamed)
    /\ noToolsUsedBlocks' = IF toolUseStreamed THEN noToolsUsedBlocks ELSE noToolsUsedBlocks + 1
    /\ IF abort
       THEN Returns("true") /\ UNCHANGED requests
       ELSE /\ requests < MaxRequests
            /\ requests' = requests + 1
            /\ depth' = depth + 1
            /\ streamPc' = "preparing"
            /\ UNCHANGED didEndLoop
    /\ UNCHANGED <<streamQuiet, abort, abandoned, clineMessages, lastMessageTs, ret,
                   burst, disposeVars, apiConversationHistory, assistantMessage,
                   toolUseStreamed, userMessageContentReady, didRejectTool,
                   didAlreadyUseTool, isStreaming, didFinishAbortingStream,
                   apiReqCancelReason, reinitCount, chunksSeen, abortedAt, attempt,
                   consecutiveMistakeLimit, userContent>>

\* initiateTaskLoop after the call returned: break, or the no-tools-used reply,
\* one more mistake and the next iteration
TaskLoopNext ==
    /\ streamPc = "returned"
    /\ consecutiveMistakeCount' =
           IF didEndLoop = "true" THEN consecutiveMistakeCount
           ELSE consecutiveMistakeCount + 1
    /\ noToolsUsedBlocks' = IF didEndLoop = "true" THEN noToolsUsedBlocks ELSE 1
    /\ IF didEndLoop = "true" \/ abort
       THEN streamPc' = "exited" /\ UNCHANGED requests
       ELSE /\ requests < MaxRequests
            /\ requests' = requests + 1
            /\ streamPc' = "preparing"
    /\ UNCHANGED <<streamQuiet, abort, abandoned, clineMessages, lastMessageTs, ret,
                   burst, disposeVars, apiConversationHistory, depth, assistantMessage,
                   toolUseStreamed, userMessageContentReady, didRejectTool,
                   didAlreadyUseTool, isStreaming, didFinishAbortingStream,
                   apiReqCancelReason, reinitCount, didEndLoop, chunksSeen, abortedAt,
                   attempt, consecutiveMistakeLimit, userContent>>

\* an attemptApiRequest that goes on although continuation was declined
ApprovalThrowsNever(shouldProceed) == FALSE

\* if (!approvalResult.shouldProceed) throw (Task.ts 2122-2125)
ApprovalThrows(shouldProceed) == ~shouldProceed

\* the attempt ended the task: which way, and the createMessage calls made so far
FatalAttempt(a, fatal) == [a EXCEPT !.fatal = fatal, !.sentAtFatal = a.sent]

\* attemptApiRequest from checkAutoApprovalLimits to createMessage: a declined
\* continuation throws out of the generator into the catch of the stream loop
StreamAttemptApiRequest ==
    \E shouldProceed \in BOOLEAN :
        /\ streamPc = "requesting"
        /\ IF ApprovalThrows(shouldProceed)
           THEN /\ attempt' = FatalAttempt(attempt, "declined")
                /\ CatchStreamFailure
           ELSE /\ attempt.sent < MaxCalls
                /\ attempt' = [IF shouldProceed THEN attempt
                                 ELSE FatalAttempt(attempt, "declined")
                                   EXCEPT !.sent = @ + 1]
                /\ streamPc' = "firstChunk"
                /\ UNCHANGED <<catchFields, clineMessages>>
        /\ UNCHANGED <<loopQuiet, roundFields, lastMessageTs, askResponse, blockingAsk,
                       taskState, asks, ret, burst, mistakeVars>>

\* iterator.next() yields the first chunk: the stream is handed to the loop
StreamFirstChunk ==
    /\ streamPc = "firstChunk"
    /\ streamPc' = "streaming"
    /\ UNCHANGED <<loopQuiet, roundFields, abort, abandoned, disposeVars,
                   apiConversationHistory, apiReqCancelReason, didFinishAbortingStream,
                   reinitCount, isStreaming, didEndLoop, depth, clineMessages,
                   lastMessageTs, askResponse, blockingAsk, taskState, asks, ret, burst,
                   attempt, mistakeVars>>

\* iterator.next() throws on the first chunk: with auto-retry the backoff
\* countdown starts with its first say, else the api_req_failed ask is issued;
\* on an aborted task either call throws into the catch of the stream loop
StreamFirstChunkFails ==
    \E auto \in BOOLEAN :
        /\ streamPc = "firstChunk"
        /\ IF ThrowsAborted(abort)
           THEN /\ ret' = [op |-> IF auto THEN "say" ELSE "ask", res |-> "aborted",
                           response |-> "none"]
                /\ CatchStreamFailure
                /\ UNCHANGED <<lastMessageTs, askResponse, asks, burst>>
           ELSE /\ IF auto
                   THEN /\ Say("api_req_retry_delayed", "true", FALSE)
                        /\ streamPc' = "backoff"
                        /\ UNCHANGED <<askResponse, asks>>
                   ELSE /\ Ask("loop", "api_req_failed", "undefined")
                        /\ streamPc' = "askRetry"
                /\ UNCHANGED catchFields
        /\ UNCHANGED <<loopQuiet, roundFields, blockingAsk, taskState, attempt, mistakeVars>>

\* the backoff countdown is over (its further says rewrite the trailing partial
\* entry in place): "Retrying now..." and the recursive attemptApiRequest
StreamBackoffOver ==
    /\ streamPc = "backoff"
    /\ IF ThrowsAborted(abort)
       THEN /\ ret' = [op |-> "say", res |-> "aborted", response |-> "none"]
            /\ CatchStreamFailure
            /\ UNCHANGED <<lastMessageTs, burst>>
       ELSE /\ Say("api_req_retry_delayed", "false", FALSE)
            /\ streamPc' = "requesting"
            /\ UNCHANGED catchFields
    /\ UNCHANGED <<loopQuiet, roundFields, askResponse, blockingAsk, taskState, asks,
                   attempt, mistakeVars>>

\* a retry in spite of a message response
RetryRefusedOnlyOnNo(response) == response = "noButtonClicked"

\* if (response !== "yesButtonClicked") throw new Error("API request failed")
RetryRefused(response) == response # "yesButtonClicked"

\* the api_req_failed ask stops waiting: an ignored ask and a refusal throw into
\* the catch of the stream loop, the affirmative goes on to say("api_req_retried")
StreamRetryAnswered ==
    /\ streamPc = "askRetry"
    /\ AskWaitOver("loop")
    /\ AskResult("loop")
    /\ attempt' = IF ret'.response = "yesButtonClicked" THEN attempt
                  ELSE FatalAttempt(attempt, "refused")
    /\ IF ret'.res = "ignored" \/ RetryRefused(ret'.response)
       THEN CatchStreamFailure
       ELSE /\ streamPc' = "retrying"
            /\ UNCHANGED <<catchFields, clineMessages>>
    /\ UNCHANGED <<loopQuiet, roundFields, lastMessageTs, burst, mistakeVars>>

\* say("api_req_retried") and the recursive attemptApiRequest()
StreamSayRetried ==
    /\ streamPc = "retrying"
    /\ IF ThrowsAborted(abort)
       THEN /\ ret' = [op |-> "say", res |-> "aborted", response |-> "none"]
            /\ CatchStreamFailure
            /\ UNCHANGED <<lastMessageTs, burst>>
       ELSE /\ Say("api_req_retried", "undefined", FALSE)
            /\ streamPc' = "requesting"
            /\ UNCHANGED catchFields
    /\ UNCHANGED <<loopQuiet, roundFields, askResponse, blockingAsk, taskState, asks,
                   attempt, mistakeVars>>

\* the user cancels the task while its loop runs: the provider calls abortTask,
\* abandoning the instance or not
StreamUserAbort ==
    \E isAbandoned \in BOOLEAN :
        /\ ~abort
        /\ ~InSynchronousBlock
        /\ AbortTask(isAbandoned, {})
        /\ abortedAt' = [pc |-> streamPc,
                         toolPending |-> toolUseStreamed /\ ~didRejectTool
                                            /\ ~didAlreadyUseTool]
        /\ UNCHANGED <<streamQuiet, clineMessages, lastMessageTs, ret, burst,
                       apiConversationHistory, streamPc, depth, assistantMessage,
                       toolUseStreamed, userMessageContentReady, didRejectTool,
                       didAlreadyUseTool, isStreaming, didFinishAbortingStream,
                       apiReqCancelReason, reinitCount, didEndLoop, chunksSeen,
                       requests, attempt, mistakeVars>>

\* the task is created with a limit on consecutive mistakes, or with none (0)
InitStream ==
    /\ TaskInit /\ DisposeInit /\ ResumeIdle /\ LoopIdle /\ RateIdle /\ CondenseIdle
    /\ StoreIdle /\ OuterIdle
    /\ consecutiveMistakeLimit \in 0..MaxMistakeLimit

NextStream ==
    \/ InitiateTaskLoop
    \/ RoundMistakeLimit
    \/ RoundMistakeAnswered
    \/ RoundSayFeedback
    \/ RoundPrepare
    \/ ChunkText
    \/ ChunkUsage
    \/ ChunkReasoning
    \/ StreamEnd
    \/ StreamError
    \/ RoundPersist
    \/ PresentAssistantMessage
    \/ WaitReadyOver
    \/ TaskLoopNext
    \/ StreamAttemptApiRequest
    \/ StreamFirstChunk
    \/ StreamFirstChunkFails
    \/ StreamBackoffOver
    \/ AskBeginWait("loop")
    \/ (asks["loop"].pc # "idle" /\ HandleWebviewAskResponse)
    \/ StreamRetryAnswered
    \/ StreamSayRetried
    \/ StreamUserAbort

SpecStream == InitStream /\ [][NextStream]_vars

\* the steps the task takes by itself, given that the provider's stream goes on
\* yielding or ends: all but a response of the user and the user's abort
LoopStep ==
    \/ InitiateTaskLoop
    \/ RoundMistakeLimit
    \/ RoundMistakeAnswered
    \/ RoundSayFeedback
    \/ RoundPrepare
    \/ ChunkText
    \/ ChunkUsage
    \/ ChunkReasoning
    \/ StreamEnd
    \/ StreamError
    \/ RoundPersist
    \/ PresentAssistantMessage
    \/ WaitReadyOver
    \/ TaskLoopNext
    \/ StreamAttemptApiRequest
    \/ StreamFirstChunk
    \/ StreamFirstChunkFails
    \/ StreamBackoffOver
    \/ AskBeginWait("loop")
    \/ StreamRetryAnswered
    \/ StreamSayRetried

\* the request loop under a scheduler that runs every continuation that is ready
SpecStreamFair == InitStream /\ [][NextStream]_vars /\ WF_vars(LoopStep)

\* the turns of the API history that abortStream wrote
InterruptedTurns(history) ==
    {i \in 1..Len(history) : IsInterruptedTurn(history[i])}

\* C4: when the request loop of a task has unwound after a user abort that did
\* not abandon it and that came while a response was streaming with a tool use
\* pending, abort is set and the last turn of the API history is the assistant
\* text streamed so far with the interrupted-by-user note, present exactly once.
C4_InterruptedTurnOnceAfterUserAbort ==
    (/\ streamPc \in {"returned", "exited"}
     /\ abortedAt.pc = "streaming"
     /\ abortedAt.toolPending
     /\ ~abandoned) =>
        /\ abort
        /\ Cardinality(InterruptedTurns(apiConversationHistory)) = 1
        /\ apiConversationHistory[Len(apiConversationHistory)] =
               AssistantTurn(InterruptedAssistantText(assistantMessage, "user_cancelled"))

\* C5: whatever the interleaving of a user abort with the stream loop, no
\* tracked resource of the task is released more than once.
C5_DisposeReleasesOnce ==
    \A r \in Resources : released[r] <= 1

\* the round that is being persisted got an empty response on a live task
EmptyResponseRound ==
    /\ RoundPersist
    /\ ~HasAssistantText(assistantMessage)
    /\ ~abort

\* C14: when a round's stream ends cleanly with an empty assistant message,
\* recursivelyMakeClineRequests returns true, so that initiateTaskLoop ends the
\* task.
C14_EmptyResponseReturnsTrue ==
    [][EmptyResponseRound => didEndLoop' = "true"]_vars

\* C14 (amended): when a round's stream ends cleanly with an empty assistant
\* message, recursivelyMakeClineRequests records an error say and a failure
\* assistant turn and returns false; initiateTaskLoop, unless the task was
\* aborted meanwhile, then starts another round.
C14_EmptyResponseStartsAnotherRound ==
    [][/\ EmptyResponseRound =>
              /\ streamPc' = "returned"
              /\ didEndLoop' = "false"
              /\ clineMessages'[Len(clineMessages')].kind = "error"
              /\ apiConversationHistory' =
                     Append(apiConversationHistory, AssistantTurn(FailureText))
       /\ (TaskLoopNext /\ didEndLoop = "false" /\ ~abort) =>
              /\ streamPc' = "preparing"
              /\ requests' = requests + 1]_vars

\* the loop started a second round right after the failure turn of an empty one
C14_Witness ==
    /\ streamPc = "preparing"
    /\ didEndLoop = "false"
    /\ requests = 2
    /\ ~abort
    /\ apiConversationHistory[Len(apiConversationHistory)] = AssistantTurn(FailureText)

\* C15: when the human declines continuation at the auto-approval limit, the
\* task fails fast: that attempt makes no createMessage call, nothing is retried
\* and no backoff runs, the request loop returns true, the instance is aborted,
\* and it sends no request afterwards.
C15_DeclinedApprovalEndsLoop ==
    attempt.fatal = "declined" =>
        /\ attempt.sent = attempt.sentAtFatal
        /\ streamPc \in {"returned", "exited"}
        /\ didEndLoop = "true"
        /\ abort
        /\ asks["loop"].pc = "idle"

\* the continuation was declined in a later round of a task that had sent a
\* request, and its loop has ended
C15_Witness ==
    /\ attempt.fatal = "declined"
    /\ attempt.sent > 0
    /\ requests > 1
    /\ streamPc = "exited"
    /\ reinitCount = 1

\* C16: on a first-chunk failure without auto-retry the api_req_failed ask is
\* surfaced; the attempt goes on to a new request only if the response is
\* yesButtonClicked, and any other response is fatal: the request loop returns
\* true and the task sends no further request.
C16_OnlyAffirmativeRetries ==
    /\ [](streamPc = "askRetry" =>
             /\ asks["loop"].kind = "api_req_failed"
             /\ asks["loop"].pc \in {"saving", "waiting"})
    /\ [][StreamRetryAnswered =>
             /\ streamPc' = "retrying" <=>
                    (ret'.res = "returned" /\ ret'.response = "yesButtonClicked")
             /\ streamPc' # "retrying" =>
                    (streamPc' = "returned" /\ didEndLoop' = "true")]_vars
    /\ [](attempt.fatal = "refused" =>
             /\ attempt.sent = attempt.sentAtFatal
             /\ streamPc \in {"returned", "exited"}
             /\ didEndLoop = "true"
             /\ abort)

\* the user answered the api_req_failed ask with a message: the loop returned
C16_Witness ==
    /\ attempt.fatal = "refused"
    /\ ret.op = "ask"
    /\ ret.res = "returned"
    /\ ret.response = "messageResponse"
    /\ streamPc = "returned"
    /\ didEndLoop = "true"

\* C19: once the abort flag is set, the loop drains: whatever suspension it is
\* in ends and initiateTaskLoop returns or throws, with no further response,
\* message or unpause from outside.
C19_AbortDrainsLoop ==
    (abort /\ streamPc # "none") ~> (streamPc \in {"exited", "threw"})

\* C21: at most one instance of a task id is active.  When an instance asks the
\* provider for its replacement after a mid-stream failure, it has abort = true
\* and has persisted its interrupted state (the interrupted assistant turn, the
\* UI messages saved by abortTask and abortStream); from then on it is never
\* active again and changes neither the UI log nor the API history.
C21_SupersededInstanceIsInactive ==
    /\ [][reinitCount' # reinitCount =>
             /\ reinitCount' = reinitCount + 1
             /\ abort'
             /\ didFinishAbortingStream'
             /\ aborts'.saved = aborts.saved + 1
             /\ apiConversationHistory' =
                    Append(apiConversationHistory,
                           AssistantTurn(InterruptedAssistantText(assistantMessage,
                                                                  apiReqCancelReason')))]_vars
    /\ [](reinitCount > 0 => abort /\ streamPc \in {"returned", "exited"})
    /\ [][reinitCount > 0 =>
             UNCHANGED <<clineMessages, apiConversationHistory, reinitCount>>]_vars

\* the stream of a second round failed after text had arrived: the instance
\* asked for its replacement and its loop has ended
C21_Witness ==
    /\ reinitCount = 1
    /\ apiReqCancelReason = "streaming_failed"
    /\ assistantMessage.chunks > 0
    /\ requests = 2
    /\ streamPc = "exited"

\* C24: when the stream fails after the first chunk on a task that is not
\* abandoned, the task is aborted, the assistant text streamed so far is appended
\* to the API history with the interrupted annotation, the api_req_started entry
\* records user_cancelled iff abort was already set when the failure was caught
\* and streaming_failed otherwise, and the provider is asked to re-create the
\* task in a state where all of that is done.
C24_StreamFailureIsPersisted ==
    [][((StreamError \/ (ChunkReasoning /\ abort)) /\ ~abandoned) =>
          /\ abort'
          /\ apiReqCancelReason' = (IF abort THEN "user_cancelled" ELSE "streaming_failed")
          /\ apiConversationHistory' =
                 Append(apiConversationHistory,
                        AssistantTurn([body |-> assistantMessage,
                                       interrupted |-> IF abort THEN "user"
                                                       ELSE "api_error"]))
          /\ didFinishAbortingStream'
          /\ aborts'.completed = aborts.completed + 1
          /\ reinitCount' = reinitCount + 1]_vars

\* the user cancelled while text was streaming and the stream then failed: the
\* catch recorded the cancellation, not a failure of the stream
C24_Witness ==
    /\ abortedAt.pc = "streaming"
    /\ assistantMessage.chunks > 0
    /\ reinitCount = 1
    /\ apiReqCancelReason = "user_cancelled"
    /\ IsInterruptedTurn(apiConversationHistory[Len(apiConversationHistory)])
    /\ streamPc = "returned"

\* C25: no failure inside a round escapes recursivelyMakeClineRequests as an
\* exception: an ask or say that throws, at any point of the round, also before
\* the streaming section, makes the call return true, so the call that
\* initiateTaskLoop made never throws.
C25_NoExceptionEscapesTheRound ==
    streamPc # "threw"

\* C26: in every reachable state of the UI log at most one entry is partial and
\* it is the last entry: a reasoning partial is not left with partial = true
\* once another message is appended after it.
C26_OnlyTheLastEntryIsPartial ==
    \A i \in 1..Len(clineMessages) :
        clineMessages[i].partial = "true" => i = Len(clineMessages)

\* a step of the stream loop that processes one chunk
ChunkProcessed == streamPc = "streaming" /\ chunksSeen' = chunksSeen + 1

\* C28: stream consumption stops after the first chunk processed with
\* didAlreadyUseTool set, after a tool rejection (didRejectTool) or after
\* abort; in the first two cases the interruption note is appended to the
\* assistant text, and that text is what the round persists as its assistant
\* turn; once the loop has stopped the round's buffer never changes again.
C28_StreamStopsAfterOneToolUse ==
    [][/\ (ChunkProcessed /\ (abort \/ didRejectTool \/ didAlreadyUseTool))
              => streamPc' # "streaming"
       /\ (ChunkProcessed /\ ~abort /\ didRejectTool)
              => (streamPc' = "completed" /\ assistantMessage'.note = "user_feedback")
       /\ (ChunkProcessed /\ ~abort /\ ~didRejectTool /\ didAlreadyUseTool)
              => (streamPc' = "completed" /\ assistantMessage'.note = "tool_use_result")
       /\ (streamPc = "completed" /\ assistantMessage.note # "none" /\ streamPc' # streamPc)
              => /\ streamPc' = "waitReady"
                 /\ apiConversationHistory' =
                        Append(apiConversationHistory,
                               AssistantTurn(CompleteAssistantText(assistantMessage)))
       /\ (streamPc \in {"completed", "waitReady"})
              => assistantMessage' = assistantMessage]_vars

\* the loop stopped reading at the chunk that followed a tool use, and the
\* assistant turn with the note is the last turn of the history
C28_Witness ==
    /\ streamPc = "waitReady"
    /\ didAlreadyUseTool
    /\ assistantMessage.note = "tool_use_result"
    /\ assistantMessage.chunks > 0
    /\ Len(apiConversationHistory) > 0
    /\ apiConversationHistory[Len(apiConversationHistory)] =
           AssistantTurn(CompleteAssistantText(assistantMessage))

\* a step that starts a round after an earlier round of the task
NextRoundStarts == requests >= 1 /\ requests' = requests + 1

\* a step in which a frame calls recursivelyMakeClineRequests with its results
RecursiveCall == depth' = depth + 1

\* a chunk that makes the parsed content longer: the first text, or a tool use
BlockCountGrows ==
    /\ ChunkProcessed
    /\ \/ assistantMessage.chunks = 0 /\ assistantMessage'.chunks = 1
       \/ ~toolUseStreamed /\ toolUseStreamed'

\* C29 as stated: the request loop never starts the next round before
\* userMessageContentReady was set for the current round.
C29_NextRoundWaitsForReady ==
    [][NextRoundStarts => userMessageContentReady]_vars

\* C29 amended: whenever the parsed content grows the flag is reset to false;
\* the recursive call is made only from the wait for the flag and in a state
\* where the flag is true; the only round that starts with the flag false is
\* the one initiateTaskLoop starts after a round that returned false on an
\* empty response, for which nothing was presented.
C29_RecursiveCallWaitsForReady ==
    [][/\ BlockCountGrows => ~userMessageContentReady'
       /\ RecursiveCall => (streamPc = "waitReady" /\ userMessageContentReady)
       /\ (NextRoundStarts /\ ~userMessageContentReady)
              => /\ streamPc = "returned"
                 /\ depth = 0
                 /\ didEndLoop = "false"
                 /\ ~HasAssistantText(assistantMessage)]_vars

\* a nested round begins after a tool use was streamed, presented and marked
\* ready
C29_Witness ==
    /\ depth = 1
    /\ streamPc = "preparing"
    /\ requests = 2
    /\ toolUseStreamed
    /\ userMessageContentReady

\* C30: when a round starts with the mistake limit reached the loop asks
\* mistake_limit_reached before it builds the request; after any response the
\* counter is 0 when the round goes on; the guidance is spliced into the user
\* content for a message response only; the round then sends its request, so
\* no request is built while the limit is reached.
C30_MistakeLimitIsAdvisory ==
    [][/\ (streamPc \in {"preparing", "started"} /\ streamPc' = "requesting")
              => /\ consecutiveMistakeLimit > 0
                        => consecutiveMistakeCount < consecutiveMistakeLimit
                 /\ apiConversationHistory'[Len(apiConversationHistory')] =
                        IF userContent = "guided" THEN UserTurnWithGuidance ELSE UserTurn
       /\ (streamPc = "preparing" /\ ~abort /\ streamPc' # streamPc
              /\ consecutiveMistakeLimit > 0
              /\ consecutiveMistakeCount >= consecutiveMistakeLimit)
              => /\ streamPc' = "askMistake"
                 /\ asks'["loop"].kind = "mistake_limit_reached"
                 /\ apiConversationHistory' = apiConversationHistory
       /\ (streamPc = "askMistake" /\ streamPc' # streamPc /\ ret'.res = "returned")
              => IF ret'.response = "messageResponse"
                 THEN userContent' = "guided" /\ streamPc' = "sayFeedback"
                 ELSE /\ userContent' = "plain"
                      /\ consecutiveMistakeCount' = 0
                      /\ streamPc' = "preparing"
       /\ (streamPc = "sayFeedback" /\ ~abort /\ streamPc' # streamPc)
              => (consecutiveMistakeCount' = 0 /\ streamPc' = "started")
       /\ (userContent' = "guided" /\ userContent # "guided")
              => (streamPc = "askMistake" /\ ret'.response = "messageResponse")]_vars

\* the user answered the mistake_limit_reached ask with a message, and the
\* round went on to its request with the guidance in the user turn
C30_Witness ==
    /\ streamPc = "requesting"
    /\ consecutiveMistakeLimit > 0
    /\ consecutiveMistakeCount = 0
    /\ Len(apiConversationHistory) > 0
    /\ apiConversationHistory[Len(apiConversationHistory)] = UserTurnWithGuidance

\* C31: a round whose output has no tool-use block adds exactly one
\* no-tools-used notice to the content of the next call and increments
\* consecutiveMistakeCount by exactly one, a round with a tool use adds none;
\* nothing else increments the counter, and a round that starts with the
\* limit reached asks for guidance.
C31_OneMistakePerRoundWithoutToolUse ==
    [][/\ (streamPc = "waitReady" /\ streamPc' # streamPc)
              => IF toolUseStreamed
                 THEN /\ consecutiveMistakeCount' = consecutiveMistakeCount
                      /\ noToolsUsedBlocks' = 0
                 ELSE /\ consecutiveMistakeCount' = consecutiveMistakeCount + 1
                      /\ noToolsUsedBlocks' = 1
       /\ (streamPc = "returned" /\ streamPc' # streamPc /\ didEndLoop = "false")
              => /\ ~toolUseStreamed
                 /\ consecutiveMistakeCount' = consecutiveMistakeCount + 1
                 /\ noToolsUsedBlocks' = 1
       /\ (consecutiveMistakeCount' > consecutiveMistakeCount)
              => /\ streamPc \in {"waitReady", "returned"}
                 /\ ~toolUseStreamed
                 /\ consecutiveMistakeCount' = consecutiveMistakeCount + 1
       /\ (streamPc = "preparing" /\ ~abort /\ streamPc' # streamPc
              /\ consecutiveMistakeLimit > 0
              /\ consecutiveMistakeCount >= consecutiveMistakeLimit)
              => streamPc' = "askMistake"]_vars

\* a nested round asks for guidance: the round before it had text and no
\* tool use, which made one notice and the mistake that reached the limit
C31_Witness ==
    /\ streamPc = "askMistake"
    /\ depth = 1
    /\ consecutiveMistakeLimit = 1
    /\ consecutiveMistakeCount = 1
    /\ noToolsUsedBlocks = 1

\* the positions inside the try of the round: the request, its retries and
\* the loop over the stream
InStreamTry ==
    streamPc \in {"requesting", "firstChunk", "backoff", "askRetry", "retrying",
                  "streaming"}

\* C37: an instance aborted with abandoned = true performs no graceful
\* stream abort: once abort and abandoned are set, no step rewrites the
\* api_req_started entry with a cancel reason, sets didFinishAbortingStream
\* or asks the provider to re-create the task, and the request and its
\* stream loop append nothing to the API history or to the UI log.
C37_AbandonedInstanceSkipsGracefulAbort ==
    [][(abort /\ abandoned) =>
          /\ UNCHANGED <<apiReqCancelReason, didFinishAbortingStream, reinitCount>>
          /\ InStreamTry => UNCHANGED <<apiConversationHistory, clineMessages>>]_vars

\* an instance abandoned while it was streaming text has left the round
\* with the text dropped: only the user turn is in the API history
C37_Witness ==
    /\ abort
    /\ abandoned
    /\ abortedAt.pc = "streaming"
    /\ streamPc = "returned"
    /\ assistantMessage.chunks > 0
    /\ Len(apiConversationHistory) = 1
    /\ ~didFinishAbortingStream
    /\ apiReqCancelReason = "none"
    /\ reinitCount = 0


----------------------------------------------------------------------------
(* SpecLog: the UI log of one task under say, the asks of the presentation   *)
(* chain, the passing of time, abortTask and abortStream                     *)

\* abortStream as the stream loop calls it on an aborted instance that is not
\* abandoned (Task.ts 1713-1719, 1749-1766), here with no text streamed
LogAbortStream ==
    \E cancelReason \in {"user_cancelled", "streaming_failed"} :
        /\ abort
        /\ ~abandoned
        /\ ~didFinishAbortingStream
        /\ AbortStream(NoAssistantMessage, cancelReason)
        /\ ret' = NoRet
        /\ UNCHANGED <<now, abort, abandoned, lastMessageTs, askResponse, blockingAsk,
                       taskState, asks, burst, disposeVars, savedApiHistory,
                       nextUserContent, resumePc, resumedFrom, streamPc, depth,
                       assistantMessage, toolUseStreamed, userMessageContentReady,
                       didRejectTool, didAlreadyUseTool, isStreaming, reinitCount,
                       didEndLoop, chunksSeen, requests, abortedAt, attempt, mistakeVars,
                       nonStreamVars>>

\* the presentation of a text block: say("text", content, undefined, partial);
\* a progress message of the system: the same call with isNonInteractive
LogSay ==
    \E partial \in Partials, isNonInteractive \in BOOLEAN :
        /\ (~abort /\ SayAppends(clineMessages, "text", partial)) =>
               Len(clineMessages) < MaxMsgs
        /\ Say("text", partial, isNonInteractive)
        /\ UNCHANGED <<now, abort, abandoned, askResponse, blockingAsk, taskState,
                       asks, disposeVars, nonTaskVars>>

\* the presentation of a tool block: ask("command_output", content, partial)
LogAsk ==
    \E partial \in Partials :
        /\ (~abort /\ AskAppends(clineMessages, "command_output", partial)) =>
               Len(clineMessages) < MaxMsgs
        /\ Ask("present", "command_output", partial)
        /\ UNCHANGED <<now, abort, abandoned, blockingAsk, taskState, disposeVars,
                       nonTaskVars>>

InitLog == Init

NextLog ==
    \/ LogSay
    \/ LogAsk
    \/ AskBeginWait("present")
    \/ AskEndWait("present")
    \/ (asks["present"].pc # "idle" /\ HandleWebviewAskResponse)
    \/ UserAbort
    \/ Tick
    \/ LogAbortStream

SpecLog == InitLog /\ [][NextLog]_vars

\* C22: the ts of a UI message never changes after the message is appended: no
\* ask, say or abortStream step removes an entry of the log or modifies the ts
\* of one, so a finalized partial keeps the ts its first partial call assigned.
C22_TsNeverChanges ==
    [][\A i \in 1..Len(clineMessages) :
          /\ i <= Len(clineMessages')
          /\ clineMessages'[i].ts = clineMessages[i].ts]_vars

\* a partial entry was finalized by a later ask or say call, and abortStream
\* finalized a second one, each after the clock had moved on
C22_Witness ==
    /\ didFinishAbortingStream
    /\ Len(clineMessages) = 2
    /\ clineMessages[1].partial = "false"
    /\ clineMessages[2].partial = "false"
    /\ clineMessages[2].ts < now

\* C27: a say issued with the isNonInteractive option leaves lastMessageTs
\* unchanged for every value of partial, so an ask that is waiting and not
\* superseded stays so across that say, and the response slot is left alone:
\* the ask still returns the response delivered to it.
C27_NonInteractiveSayKeepsTheAsk ==
    [][\A partial \in Partials :
          (~abort /\ Say("text", partial, TRUE)) =>
              /\ lastMessageTs' = lastMessageTs
              /\ askResponse' = askResponse
              /\ \A i \in DOMAIN asks :
                    (asks[i].pc = "waiting" /\ ~AskSuperseded(lastMessageTs, asks[i].ts))
                        => (asks'[i].pc = "waiting" /\ ~AskSuperseded(lastMessageTs', asks'[i].ts))]_vars

\* an ask waits with its response delivered and is not superseded although a
\* say with a later ts was appended after its own entry
C27_Witness ==
    /\ asks["present"].pc = "waiting"
    /\ askResponse # "none"
    /\ ~AskSuperseded(lastMessageTs, asks["present"].ts)
    /\ Len(clineMessages) >= 2
    /\ clineMessages[Len(clineMessages)].type = "say"
    /\ clineMessages[Len(clineMessages)].ts > asks["present"].ts
    /\ clineMessages[Len(clineMessages) - 1].type = "ask"
    /\ clineMessages[Len(clineMessages) - 1].ts = asks["present"].ts

----------------------------------------------------------------------------
(* SpecStore: the message-store operations and the persistence they call *)

\* the calls of the persistence layer that may fail
PersistenceSteps == {"saveApiMessages", "saveTaskMessages", "taskMetadata",
                     "updateTaskHistory"}

\* the failures of one operation in the model: none, one call, or every call
FailureCases == {{}, PersistenceSteps} \cup {{step} : step \in PersistenceSteps}

\* the entries and turns handed to the store in the model
StoreUiMessages == {NewMessage("say", "text", "undefined", now)}
StoreApiMessages == {UserTurn}

\* variables no message-store operation writes
storeQuiet == <<now, abort, abandoned, lastMessageTs, askResponse, blockingAsk,
                taskState, asks, burst, disposeVars, nextUserContent, resumePc,
                resumedFrom, streamVars, rateVars, condenseVars, outerVars>>

\* a catch that passes the failure on to the caller of the operation
StoreOutcomeRaising(caught) == IF caught THEN "threw" ELSE "ok"

\* catch (error) { console.error(...) } of saveApiConversationHistory and
\* saveClineMessages: the failure is logged and the operation returns
StoreOutcome(caught) == "ok"

\* how a message-store operation ended
StoreRet(op, caught) == [op |-> op, res |-> StoreOutcome(caught), response |-> "none"]

\* saveApiConversationHistory: the file is written unless saveApiMessages fails
SaveApiConversationHistory(history, failing) ==
    savedApiHistory' = IF "saveApiMessages" \in failing THEN savedApiHistory ELSE history

\* the steps of saveClineMessages, in the order of its try block
SaveClineSteps == <<"saveTaskMessages", "taskMetadata", "updateTaskHistory">>

\* the steps of saveClineMessages that completed: those before the first failure
SaveClineStepsDone(failing) ==
    {SaveClineSteps[i] : i \in {j \in 1..Len(SaveClineSteps) :
                                   \A k \in 1..j : SaveClineSteps[k] \notin failing}}

\* saveClineMessages: the file, then the metadata, then the provider's history item
SaveClineMessages(msgs, failing) ==
    /\ savedClineMessages' =
           IF "saveTaskMessages" \in SaveClineStepsDone(failing) THEN msgs
           ELSE savedClineMessages
    /\ taskHistoryItem' =
           IF "updateTaskHistory" \in SaveClineStepsDone(failing) THEN Len(msgs)
           ELSE taskHistoryItem

\* Task.addToApiConversationHistory(message)
AddToApiConversationHistory(message, failing) ==
    /\ Len(apiConversationHistory) < MaxHistory
    /\ apiConversationHistory' = Append(apiConversationHistory, message)
    /\ SaveApiConversationHistory(apiConversationHistory', failing)
    /\ ret' = StoreRet("addToApiConversationHistory", "saveApiMessages" \in failing)
    /\ UNCHANGED <<storeQuiet, clineMessages, storeVars>>

\* Task.overwriteApiConversationHistory(newHistory)
OverwriteApiConversationHistory(newHistory, failing) ==
    /\ apiConversationHistory' = newHistory
    /\ SaveApiConversationHistory(newHistory, failing)
    /\ ret' = StoreRet("overwriteApiConversationHistory", "saveApiMessages" \in failing)
    /\ UNCHANGED <<storeQuiet, clineMessages, storeVars>>

\* Task.addToClineMessages(message)
AddToClineMessages(message, failing) ==
    /\ Len(clineMessages) < MaxMsgs
    /\ clineMessages' = Append(clineMessages, message)
    /\ SaveClineMessages(clineMessages', failing)
    /\ ret' = StoreRet("addToClineMessages",
                       SaveClineStepsDone(failing) # {"saveTaskMessages", "taskMetadata",
                                                      "updateTaskHistory"})
    /\ UNCHANGED <<storeQuiet, apiConversationHistory, savedApiHistory>>

\* Task.overwriteClineMessages(newMessages)
OverwriteClineMessages(newMessages, failing) ==
    /\ clineMessages' = newMessages
    /\ SaveClineMessages(newMessages, failing)
    /\ ret' = StoreRet("overwriteClineMessages",
                       SaveClineStepsDone(failing) # {"saveTaskMessages", "taskMetadata",
                                                      "updateTaskHistory"})
    /\ UNCHANGED <<storeQuiet, apiConversationHistory, savedApiHistory>>

\* the logs an overwrite is called with: the log cut after some entry (the
\* resume drops trailing entries, a deletion drops a tail)
Prefixes(log) == {SubSeq(log, 1, k) : k \in 0..Len(log)}

\* a caller of the store makes one of the four calls, and the persistence
\* calls of `failing` fail during it
StoreCall ==
    \E failing \in FailureCases :
        \/ \E message \in StoreApiMessages : AddToApiConversationHistory(message, failing)
        \/ \E newHistory \in Prefixes(apiConversationHistory) :
               OverwriteApiConversationHistory(newHistory, failing)
        \/ \E message \in StoreUiMessages : AddToClineMessages(message, failing)
        \/ \E newMessages \in Prefixes(clineMessages) :
               OverwriteClineMessages(newMessages, failing)

InitStore == Init

NextStore == StoreCall

SpecStore == InitStore /\ [][NextStore]_vars

\* C23: the message-store operations update the in-memory log before they
\* return and never raise on a persistence failure: whichever of
\* saveApiMessages, saveTaskMessages, taskMetadata and updateTaskHistory fail,
\* each of the four operations completes normally with the in-memory log
\* holding what the caller asked for.
C23_StoreNeverRaises ==
    [][\A failing \in FailureCases :
          /\ \A message \in StoreApiMessages :
                 AddToApiConversationHistory(message, failing) =>
                     /\ ret'.res = "ok"
                     /\ apiConversationHistory' = Append(apiConversationHistory, message)
          /\ \A newHistory \in Prefixes(apiConversationHistory) :
                 OverwriteApiConversationHistory(newHistory, failing) =>
                     /\ ret'.res = "ok"
                     /\ apiConversationHistory' = newHistory
          /\ \A message \in StoreUiMessages :
                 AddToClineMessages(message, failing) =>
                     /\ ret'.res = "ok"
                     /\ clineMessages' = Append(clineMessages, message)
          /\ \A newMessages \in Prefixes(clineMessages) :
                 OverwriteClineMessages(newMessages, failing) =>
                     /\ ret'.res = "ok"
                     /\ clineMessages' = newMessages]_vars

\* an entry was added and the call returned although nothing of either log
\* could be written: memory is ahead of both files and of the history item
C23_Witness ==
    /\ ret.op = "addToClineMessages"
    /\ ret.res = "ok"
    /\ Len(clineMessages) = MaxMsgs
    /\ savedClineMessages = <<>>
    /\ taskHistoryItem = 0
    /\ apiConversationHistory # <<>>
    /\ savedApiHistory = <<>>

----------------------------------------------------------------------------
(* SpecRate: attemptApiRequest of the instances that share the static timestamp *)

\* one second of Date.now() is TicksPerSecond steps of the model clock
TicksPerSecond == 2
\* the model clock stops at MaxTime ticks
MaxTime == 5
\* rateLimitSeconds ranges over 0..MaxRateLimit
MaxRateLimit == 2
\* requestDelaySeconds ranges over 0..MaxRequestDelay
MaxRequestDelay == 1

MAX_EXPONENTIAL_BACKOFF_SECONDS == 600

\* retryDelay of a 429 RetryInfo detail, in seconds; NoRetryInfo: there is none
NoRetryInfo == -1
RetryInfos == {NoRetryInfo, 0}

\* Math.ceil(x / d) for x >= 0, d > 0
CeilDiv(x, d) == (x + d - 1) \div d

Max(a, b) == IF a >= b THEN a ELSE b
Min(a, b) == IF a <= b THEN a ELSE b

RECURSIVE Pow2(_)
Pow2(n) == IF n = 0 THEN 1 ELSE 2 * Pow2(n - 1)

\* the delay rounded down instead of up
RateLimitDelayFloor(t, last, seconds) ==
    Max(0, seconds * TicksPerSecond - (t - last)) \div TicksPerSecond

\* Math.ceil(Math.max(0, rateLimit * 1000 - (now - lastGlobalApiRequestTime)) / 1000)
RateLimitDelay(t, last, seconds) ==
    CeilDiv(Max(0, seconds * TicksPerSecond - (t - last)), TicksPerSecond)

\* a backoff that does not look at the 429 RetryInfo detail
ExponentialDelayWithoutHint(delaySeconds, retryAttempt, retryInfo) ==
    Min((IF delaySeconds = 0 THEN 5 ELSE delaySeconds) * Pow2(retryAttempt),
        MAX_EXPONENTIAL_BACKOFF_SECONDS)

\* baseDelay, exponentialDelay and the 429 RetryInfo override
ExponentialDelay(delaySeconds, retryAttempt, retryInfo) ==
    IF retryInfo # NoRetryInfo
    THEN retryInfo + 1
    ELSE Min((IF delaySeconds = 0 THEN 5 ELSE delaySeconds) * Pow2(retryAttempt),
             MAX_EXPONENTIAL_BACKOFF_SECONDS)

\* one instance's log after say(kind, text, undefined, partial); the ts of the
\* entries are not kept here
RateSay(r, kind, partial) ==
    [r EXCEPT !.msgs = SayMessages(r.msgs, kind, partial, NoTs)]

\* the generator is done: its locals are gone, the instance's log and the
\* history of its requests stay
Finished(r, pc) ==
    [IdleRate EXCEPT !.pc = pc, !.recorded = r.recorded, !.issued = r.issued,
                     !.sent = r.sent, !.msgs = r.msgs]

\* variables attemptApiRequest does not write
rateQuiet == <<taskVars, disposeVars, resumeVars, streamVars, condenseVars,
               storeVars, outerVars, rateLimitSeconds, requestDelaySeconds, autoRetry>>

\* the createMessage calls made, and the attempts that are on their way to one
CallsBegun ==
    LET sent == [t \in Tasks |-> rate[t].sent]
        pending == {t \in Tasks : rate[t].pc \in {"called", "countdown", "ready", "building"}}
    IN  sent["parent"] + sent["sub"] + Cardinality(pending)

\* the round of an instance calls attemptApiRequest()
AttemptApiRequest(t) ==
    /\ rate[t].pc = "idle"
    /\ CallsBegun < MaxCalls
    /\ rate' = [rate EXCEPT ![t] = [@ EXCEPT !.pc = "called", !.retryAttempt = 0]]
    /\ UNCHANGED <<rateQuiet, lastGlobalApiRequestTime>>

\* the read of the shared timestamp and the first say of the countdown
ReadRateLimit(t) ==
    LET d == IF lastGlobalApiRequestTime # 0
             THEN RateLimitDelay(now, lastGlobalApiRequestTime, rateLimitSeconds)
             ELSE 0
        r == [rate[t] EXCEPT !.rateLimitDelay = d]
    IN  /\ rate[t].pc = "called"
        /\ rate' = [rate EXCEPT ![t] =
               IF d > 0 /\ r.retryAttempt = 0
               THEN [RateSay(r, "api_req_retry_delayed", "true") EXCEPT
                        !.pc = "countdown", !.left = d,
                        !.deadline = now + TicksPerSecond]
               ELSE [r EXCEPT !.pc = "ready"]]
        /\ UNCHANGED <<rateQuiet, lastGlobalApiRequestTime>>

\* delay(1000) of the countdown is over: the next say, or the loop ends
Countdown(t) ==
    /\ rate[t].pc = "countdown"
    /\ now >= rate[t].deadline
    /\ rate' = [rate EXCEPT ![t] =
           IF rate[t].left > 1
           THEN [RateSay(rate[t], "api_req_retry_delayed", "true") EXCEPT
                    !.left = @ - 1, !.deadline = now + TicksPerSecond]
           ELSE [rate[t] EXCEPT !.pc = "ready", !.left = 0, !.deadline = 0]]
    /\ UNCHANGED <<rateQuiet, lastGlobalApiRequestTime>>

\* Task.lastGlobalApiRequestTime = Date.now()
RecordRequestTime(t) ==
    /\ rate[t].pc = "ready"
    /\ lastGlobalApiRequestTime' = now
    /\ rate' = [rate EXCEPT ![t] = [@ EXCEPT !.pc = "building", !.recorded = now,
                                               !.prev = rate[t].recorded]]
    /\ UNCHANGED rateQuiet

\* this.api.createMessage(systemPrompt, cleanConversationHistory, metadata)
CreateMessage(t) ==
    /\ rate[t].pc = "building"
    /\ rate' = [rate EXCEPT ![t] = [@ EXCEPT !.pc = "firstChunk", !.sent = @ + 1,
                                               !.issued = now]]
    /\ UNCHANGED <<rateQuiet, lastGlobalApiRequestTime>>

\* the first chunk arrives: the rest of the stream is handed to the caller
FirstChunk(t) ==
    /\ rate[t].pc = "firstChunk"
    /\ rate' = [rate EXCEPT ![t] = Finished(rate[t], "idle")]
    /\ UNCHANGED <<rateQuiet, lastGlobalApiRequestTime>>

\* the first chunk throws: the automatic retry starts its backoff countdown with
\* the rateLimitDelay this attempt computed before its request, or the user is asked
\* retryInfo: the retryDelay of the error's RetryInfo detail, if it is a 429 that
\* carries one; due (history): when the whole countdown will have been waited
FirstChunkFailsWith(t, retryInfo) ==
    LET finalDelay == Max(ExponentialDelay(requestDelaySeconds, rate[t].retryAttempt,
                                           retryInfo),
                          rate[t].rateLimitDelay)
    IN  /\ rate[t].pc = "firstChunk"
        /\ rate' = [rate EXCEPT ![t] =
               IF autoRetry
               THEN [RateSay(rate[t], "api_req_retry_delayed", "true") EXCEPT
                        !.pc = "backoff", !.left = finalDelay, !.prev = 0,
                        !.deadline = now + TicksPerSecond,
                        !.due = now + finalDelay * TicksPerSecond]
               ELSE [rate[t] EXCEPT
                        !.pc = "askRetry", !.prev = 0,
                        !.msgs = AskMessages(rate[t].msgs, "api_req_failed",
                                             "undefined", NoTs)]]
        /\ UNCHANGED <<rateQuiet, lastGlobalApiRequestTime>>

FirstChunkFails(t) ==
    \E retryInfo \in RetryInfos : FirstChunkFailsWith(t, retryInfo)

\* delay(1000) of the backoff is over: the next say, or "Retrying now..." and
\* the recursive attemptApiRequest(retryAttempt + 1)
Backoff(t) ==
    /\ rate[t].pc = "backoff"
    /\ now >= rate[t].deadline
    /\ rate[t].left = 1 => CallsBegun < MaxCalls
    /\ rate' = [rate EXCEPT ![t] =
           IF rate[t].left > 1
           THEN [RateSay(rate[t], "api_req_retry_delayed", "true") EXCEPT
                    !.left = @ - 1, !.deadline = now + TicksPerSecond]
           ELSE [RateSay(rate[t], "api_req_retry_delayed", "false") EXCEPT
                    !.pc = "called", !.left = 0, !.deadline = 0, !.due = 0,
                    !.retryAttempt = @ + 1]]
    /\ UNCHANGED <<rateQuiet, lastGlobalApiRequestTime>>

\* the api_req_failed ask returns: say("api_req_retried") and attemptApiRequest(),
\* or "API request failed" is thrown
RetryAnswered(t) ==
    \E response \in Responses :
        /\ rate[t].pc = "askRetry"
        /\ response = "yesButtonClicked" => CallsBegun < MaxCalls
        /\ rate' = [rate EXCEPT ![t] =
               IF response = "yesButtonClicked"
               THEN [RateSay(rate[t], "api_req_retried", "undefined") EXCEPT
                        !.pc = "called", !.retryAttempt = 0]
               ELSE Finished(rate[t], "failed")]
        /\ UNCHANGED <<rateQuiet, lastGlobalApiRequestTime>>

\* Date.now() advances
RateTick ==
    /\ now < MaxTime
    /\ now' = now + 1
    /\ UNCHANGED <<abort, abandoned, clineMessages, lastMessageTs, askResponse,
                   blockingAsk, taskState, asks, ret, burst, disposeVars, resumeVars,
                   streamVars, rateVars, condenseVars, storeVars, outerVars>>

\* the settings the instances run under
RateInit ==
    /\ lastGlobalApiRequestTime = 0
    /\ rateLimitSeconds \in 0..MaxRateLimit
    /\ requestDelaySeconds \in 0..MaxRequestDelay
    /\ autoRetry \in BOOLEAN
    /\ rate = [t \in Tasks |-> IdleRate]

InitRate ==
    /\ TaskInit /\ DisposeInit /\ ResumeIdle /\ StreamIdle /\ RateInit /\ CondenseIdle
    /\ StoreIdle /\ OuterIdle

NextRate ==
    \/ \E t \in Tasks : AttemptApiRequest(t)
    \/ \E t \in Tasks : ReadRateLimit(t)
    \/ \E t \in Tasks : Countdown(t)
    \/ \E t \in Tasks : RecordRequestTime(t)
    \/ \E t \in Tasks : CreateMessage(t)
    \/ \E t \in Tasks : FirstChunk(t)
    \/ \E t \in Tasks : FirstChunkFails(t)
    \/ \E t \in Tasks : Backoff(t)
    \/ \E t \in Tasks : RetryAnswered(t)
    \/ RateTick

SpecRate == InitRate /\ [][NextRate]_vars

\* what is left of the interval, in ticks, when the shared timestamp is read
RemainingTicks == Max(0, rateLimitSeconds * TicksPerSecond - (now - lastGlobalApiRequestTime))

\* C6: whenever a global timestamp exists, the delay an instance computes is
\* max(0, rateLimitSeconds*1000 - (now - lastGlobalApiRequestTime)) rounded up to
\* whole seconds: the least number of seconds that covers what is left of the
\* interval.  It is a function of now, the interval and the shared timestamp
\* alone, so a parent and a sub-task that never sent a request compute the same.
C6_RateLimitDelayIsCeiling ==
    [][\A t \in Tasks :
          (ReadRateLimit(t) /\ lastGlobalApiRequestTime # 0) =>
              /\ rate'[t].rateLimitDelay * TicksPerSecond >= RemainingTicks
              /\ rate'[t].rateLimitDelay > 0 =>
                     (rate'[t].rateLimitDelay - 1) * TicksPerSecond < RemainingTicks
              /\ rate'[t].rateLimitDelay >= 0]_vars

\* a sub-task that never sent a request has just computed a delay from the time
\* its parent recorded, and what was left of the interval was not whole seconds
C6_Witness ==
    /\ rate["sub"].sent = 0
    /\ rate["parent"].sent > 0
    /\ rate["sub"].pc = "countdown"
    /\ rate["sub"].left = rate["sub"].rateLimitDelay
    /\ rate["sub"].deadline = now + TicksPerSecond
    /\ lastGlobalApiRequestTime = rate["parent"].recorded
    /\ RemainingTicks % TicksPerSecond # 0

\* C7: an instance that recorded a request at time p calls createMessage again
\* only when rateLimitSeconds have passed since p, on a first attempt and on an
\* automatic retry alike: an attempt that starts elapsed < R after p waits at
\* least R - elapsed before it calls createMessage.
C7_SecondRequestWaitsOutInterval ==
    \A t \in Tasks :
        (rate[t].pc = "firstChunk" /\ rate[t].prev # 0) =>
            rate[t].issued - rate[t].prev >= rateLimitSeconds * TicksPerSecond

\* C8: the latest createMessage calls of two instances of the process are at
\* least rateLimitSeconds apart.
C8_CallsOfTwoTasksSpaced ==
    \A t1, t2 \in Tasks :
        (t1 # t2 /\ rate[t1].sent > 0 /\ rate[t2].sent > 0 /\ rate[t1].issued >= rate[t2].issued) =>
            rate[t1].issued - rate[t2].issued >= rateLimitSeconds * TicksPerSecond

----------------------------------------------------------------------------
(* SpecBackoff: the automatic retry of an attempt whose first chunk fails *)

\* requestDelaySeconds ranges over 0..MaxBackoffBase (0: unset)
MaxBackoffBase == 5
\* the failing attempt is the retry number 0..MaxRetryAttempt
MaxRetryAttempt == 7
\* the RetryInfo detail of a 429 asks for 0..MaxRetryHint seconds
MaxRetryHint == 2

RetryHints == {NoRetryInfo} \cup 0..MaxRetryHint

\* the log of an instance whose attempt number k waited its countdowns
LogBeforeAttempt(k, rateLimitDelay) ==
    IF k > 0 THEN SayMessages(<<>>, "api_req_retry_delayed", "false", NoTs)
    ELSE IF rateLimitDelay > 0 THEN SayMessages(<<>>, "api_req_retry_delayed", "true", NoTs)
    ELSE <<>>

\* an instance with auto-retry enabled has called createMessage in attempt
\* number k and awaits the first chunk
BackoffInit ==
    /\ lastGlobalApiRequestTime = 1
    /\ rateLimitSeconds \in 0..MaxRateLimit
    /\ requestDelaySeconds \in 0..MaxBackoffBase
    /\ autoRetry = TRUE
    /\ \E k \in 0..MaxRetryAttempt, d \in 0..MaxRateLimit :
           /\ d <= rateLimitSeconds
           /\ rate = [t \in Tasks |->
                  IF t = "parent"
                  THEN [IdleRate EXCEPT !.pc = "firstChunk", !.retryAttempt = k,
                                        !.rateLimitDelay = d, !.recorded = 1,
                                        !.issued = 1, !.sent = 1,
                                        !.msgs = LogBeforeAttempt(k, d)]
                  ELSE IdleRate]

InitBackoff ==
    /\ TaskInit /\ DisposeInit /\ ResumeIdle /\ StreamIdle /\ BackoffInit /\ CondenseIdle
    /\ StoreIdle /\ OuterIdle

NextBackoff ==
    \/ \E retryInfo \in RetryHints : FirstChunkFailsWith("parent", retryInfo)
    \/ Backoff("parent")
    \/ RateTick

SpecBackoff == InitBackoff /\ [][NextBackoff]_vars

----------------------------------------------------------------------------
(* SpecPause: a task paused for a sub-task, waitForResume and resumePausedTask *)

\* variables the pause protocol does not write
pauseQuiet == <<now, abort, abandoned, askResponse, blockingAsk, taskState, asks,
                released, rooIgnoreController, bridgeService, aborts, savedApiHistory,
                nextUserContent, resumePc, resumedFrom, streamVars, rateVars,
                condenseVars, storeVars, outerVars>>

\* the task is paused for a sub-task it started (the tool sets the public field)
PauseTask ==
    /\ ~isPaused
    /\ isPaused' = TRUE
    /\ UNCHANGED <<pauseQuiet, pauseInterval, waits, clineMessages, lastMessageTs,
                   ret, burst, apiConversationHistory>>

\* this.pauseInterval = setInterval(...): the next timer of the model starts
SetPauseInterval ==
    \E k \in 1..MaxWaits :
        /\ waits[k].timer = "unused"
        /\ \A j \in 1..(k - 1) : waits[j].timer # "unused"
        /\ waits' = [waits EXCEPT ![k].timer = "active"]
        /\ pauseInterval' = k

\* Task.waitForResume: a new interval timer, kept in pauseInterval
WaitForResume ==
    /\ SetPauseInterval
    /\ UNCHANGED <<pauseQuiet, isPaused, clineMessages, lastMessageTs, ret, burst,
                   apiConversationHistory>>

\* the callback of the timer of call k: once the task is not paused it stops
\* the timer pauseInterval refers to, forgets it and resolves its own promise
TimerFires(k) ==
    /\ waits[k].timer = "active"
    /\ ~isPaused
    /\ waits' = [ClearInterval(waits, pauseInterval) EXCEPT ![k].resolved = TRUE]
    /\ pauseInterval' = 0
    /\ UNCHANGED <<pauseQuiet, isPaused, clineMessages, lastMessageTs, ret, burst,
                   apiConversationHistory>>

\* Task.resumePausedTask: the flag, then the sub-task's result in both logs;
\* on an aborted task say throws and the error is thrown on
ResumePausedTask ==
    /\ isPaused
    /\ ~abort => Len(clineMessages) < MaxMsgs
    /\ isPaused' = FALSE
    /\ Say("subtask_result", "undefined", FALSE)
    /\ apiConversationHistory' =
           IF ThrowsAborted(abort) THEN apiConversationHistory
           ELSE Append(apiConversationHistory,
                       [role |-> "user", content |-> <<TextBlock("new_task completed")>>])
    /\ UNCHANGED <<pauseQuiet, pauseInterval, waits>>

\* the provider aborts the task: abortTask, whose dispose stops the pause timer
\* and some of whose release steps fail
PauseUserAbort ==
    \E isAbandoned \in BOOLEAN, failing \in SUBSET FailingSteps :
        /\ ~abort
        /\ AbortTask(isAbandoned, failing)
        /\ UNCHANGED <<now, askResponse, blockingAsk, taskState, asks, clineMessages,
                       lastMessageTs, ret, burst, resumeVars, streamVars, rateVars,
                       condenseVars, storeVars, outerVars>>

InitPause == Init

NextPause ==
    \/ PauseTask
    \/ WaitForResume
    \/ \E k \in 1..MaxWaits : TimerFires(k)
    \/ ResumePausedTask
    \/ PauseUserAbort

\* a timer that is not stopped goes on firing
SpecPause ==
    InitPause /\ [][NextPause]_vars /\ \A k \in 1..MaxWaits : WF_vars(TimerFires(k))

\* C20: a pending waitForResume call returns once isPaused is false (unless the
\* task is paused again first), whatever the interleaving with dispose,
\* resumePausedTask and other waitForResume calls.
C20_WaitForResumeReturns ==
    \A k \in 1..MaxWaits :
        (waits[k].timer # "unused" /\ ~isPaused) ~> (waits[k].resolved \/ isPaused)

----------------------------------------------------------------------------
(* SpecSubtask: the rounds of a parent task that starts a sub-task *)

\* turns of the API history, and entries of the UI log, in this specification
MaxSubtaskTurns == 4

\* variables the rounds of the parent do not write up to their request
subtaskQuiet == <<now, abort, abandoned, askResponse, blockingAsk, taskState, asks,
                  released, rooIgnoreController, bridgeService, aborts, savedApiHistory,
                  nextUserContent, resumePc, resumedFrom, streamVars, rateVars,
                  condenseVars, storeVars, askTrack, runVars, workerVars, tokenVars>>

\* the wait of the round: the latest waitForResume call
RoundWait ==
    CHOOSE k \in 1..MaxWaits :
        /\ waits[k].timer # "unused"
        /\ \A j \in (k + 1)..MaxWaits : waits[j].timer = "unused"

\* a round that does not look at isPaused
PausedCheckNever(paused) == FALSE

\* if (this.isPaused && provider), with the provider alive
PausedCheck(paused) == paused

\* initiateTaskLoop calls the first round
SubtaskLoopStarts ==
    /\ pausePc = "none"
    /\ pausePc' = "roundStart"
    /\ UNCHANGED <<subtaskQuiet, isPaused, pauseInterval, waits, clineMessages,
                   lastMessageTs, ret, burst, apiConversationHistory, mode,
                   pausedModeSlug, roundWaited>>

\* the new_task tool, run while the response of a round is presented: the
\* active mode is remembered, the task is paused, the sub-task runs in its mode
NewTaskTool ==
    \E subMode \in Modes :
        /\ pausePc = "requested"
        /\ ~isPaused
        /\ isPaused' = TRUE
        /\ pausedModeSlug' = mode
        /\ mode' = subMode
        /\ UNCHANGED <<subtaskQuiet, pauseInterval, waits, clineMessages, lastMessageTs,
                       ret, burst, apiConversationHistory, pausePc, roundWaited>>

\* the sub-task switches the mode while it runs
SubtaskSwitchesMode ==
    \E newMode \in Modes \ {mode} :
        /\ isPaused
        /\ mode' = newMode
        /\ UNCHANGED <<subtaskQuiet, isPaused, pauseInterval, waits, clineMessages,
                       lastMessageTs, ret, burst, apiConversationHistory, pausePc,
                       pausedModeSlug, roundWaited>>

\* Task.ts 1849-1884: the assistant turn of the round is persisted and the
\* frame calls the next round
SubtaskRoundPersist ==
    /\ pausePc = "requested"
    /\ Len(apiConversationHistory) < MaxSubtaskTurns
    /\ apiConversationHistory' =
           Append(apiConversationHistory,
                  AssistantTurn(CompleteAssistantText([chunks |-> 1, note |-> "none"])))
    /\ pausePc' = "roundStart"
    /\ UNCHANGED <<subtaskQuiet, isPaused, pauseInterval, waits, clineMessages,
                   lastMessageTs, ret, burst, mode, pausedModeSlug, roundWaited>>

\* Task.ts 1483-1485: a round that starts paused calls waitForResume
RoundPausedCheck ==
    /\ pausePc = "roundStart"
    /\ IF PausedCheck(isPaused)
       THEN /\ SetPauseInterval
            /\ pausePc' = "waiting"
            /\ roundWaited' = TRUE
       ELSE /\ pausePc' = "building"
            /\ roundWaited' = FALSE
            /\ UNCHANGED <<pauseInterval, waits>>
    /\ UNCHANGED <<subtaskQuiet, isPaused, clineMessages, lastMessageTs, ret, burst,
                   apiConversationHistory, mode, pausedModeSlug>>

\* Task.ts 1486-1492: waitForResume returned; the mode is read and, if it is
\* not the paused one, switched back
RoundResumed ==
    /\ pausePc = "waiting"
    /\ waits[RoundWait].resolved
    /\ IF mode # pausedModeSlug
       THEN mode' = pausedModeSlug /\ pausePc' = "settling"
       ELSE mode' = mode /\ pausePc' = "building"
    /\ UNCHANGED <<subtaskQuiet, isPaused, pauseInterval, waits, clineMessages,
                   lastMessageTs, ret, burst, apiConversationHistory, pausedModeSlug,
                   roundWaited>>

\* await delay(500)
RoundSettled ==
    /\ pausePc = "settling"
    /\ pausePc' = "building"
    /\ UNCHANGED <<subtaskQuiet, isPaused, pauseInterval, waits, clineMessages,
                   lastMessageTs, ret, burst, apiConversationHistory, mode,
                   pausedModeSlug, roundWaited>>

\* Task.ts 1511-1545 and the request: the api_req_started entry, the user
\* turn of the round, then attemptApiRequest; on an aborted task say throws
RoundBuild ==
    /\ pausePc = "building"
    /\ Len(apiConversationHistory) < MaxSubtaskTurns
    /\ Len(clineMessages) < MaxSubtaskTurns
    /\ Say("api_req_started", "undefined", FALSE)
    /\ IF ThrowsAborted(abort)
       THEN /\ pausePc' = "threw"
            /\ UNCHANGED apiConversationHistory
       ELSE /\ apiConversationHistory' = Append(apiConversationHistory, UserTurn)
            /\ pausePc' = "requested"
    /\ UNCHANGED <<subtaskQuiet, isPaused, pauseInterval, waits, mode, pausedModeSlug,
                   roundWaited>>

\* the task starts in any mode
InitSubtask ==
    /\ TaskInit /\ DisposeInit /\ ResumeIdle /\ StreamIdle /\ RateIdle /\ CondenseIdle
    /\ StoreIdle /\ AskTrackIdle /\ RunIdle /\ WorkersIdle /\ TokensIdle
    /\ pausePc = "none"
    /\ mode \in Modes
    /\ pausedModeSlug = defaultModeSlug
    /\ roundWaited = FALSE

NextSubtask ==
    \/ SubtaskLoopStarts
    \/ NewTaskTool
    \/ SubtaskSwitchesMode
    \/ SubtaskRoundPersist
    \/ RoundPausedCheck
    \/ \E k \in 1..MaxWaits : TimerFires(k)
    \/ ResumePausedTask
    \/ RoundResumed
    \/ RoundSettled
    \/ RoundBuild
    \/ PauseUserAbort

SpecSubtask == InitSubtask /\ [][NextSubtask]_vars

C35_HistoryAlternatesRoles ==
    \A i \in 1..(Len(apiConversationHistory) - 1) :
        apiConversationHistory[i].role # apiConversationHistory[i + 1].role


----------------------------------------------------------------------------
(* SpecCondense: condensation and the previous-response linkage of requests *)

\* createMessage calls of the task in the model
MaxCondenseRequests == 2

\* what truncateConversationIfNeeded reports: nothing to do, turns dropped by
\* the sliding window, a summary, or a failed summarization
TruncateOutcomes == {"none", "truncated", "summary", "error"}

SummaryTurn == [role |-> "assistant", content |-> <<TextBlock("summary")>>,
                isSummary |-> TRUE]

\* the history with a summary in place of the turns after the first
SummarizedMessages(history) == <<history[1], SummaryTurn>>

\* the history without its oldest turn after the first
TruncatedMessages(history) ==
    <<history[1]>> \o SubSeq(history, 3, Len(history))

\* the hint is sent whatever the skip flag says
PreviousResponseIdAlways(gpt5, skip, stored) == gpt5 /\ stored

\* modelId.startsWith("gpt-5") && !this.skipPrevResponseIdOnce, and an entry of
\* the log that holds a previous_response_id
PreviousResponseId(gpt5, skip, stored) == gpt5 /\ ~skip /\ stored

\* variables the condensation steps do not write
condenseQuiet == <<now, askResponse, blockingAsk, taskState, asks, savedApiHistory,
                   nextUserContent, resumePc, resumedFrom, rateVars, storeVars, outerVars,
                   isGpt5>>

streamFields == <<toolUseStreamed, userMessageContentReady, didRejectTool,
                  didAlreadyUseTool, chunksSeen, requests, abortedAt, attempt, mistakeVars, reinitCount>>

\* a round of the request loop appends its user turn and calls attemptApiRequest
CondenseRound ==
    /\ condensePc \in {"none", "idle"}
    /\ ~abort
    /\ condenseRequests < MaxCondenseRequests
    /\ apiConversationHistory' = Append(apiConversationHistory, UserTurn)
    /\ condensePc' = "called"
    /\ UNCHANGED <<condenseQuiet, abort, abandoned, clineMessages, lastMessageTs, ret,
                   burst, disposeVars, streamVars, skipPrevResponseIdOnce,
                   storedResponseId, lastMetadata, condensedSince, condenseRequests>>

\* an attempt that gives up when the Context Window Manager reports an error
AfterTruncateErrorThrows(outcome, aborted) ==
    IF outcome = "error" \/ (outcome = "summary" /\ aborted) THEN "threw" ELSE "prepared"

\* where attemptApiRequest stands after the result was handled: it goes on
\* unless one of the two says threw on an aborted task
AfterTruncate(outcome, aborted) ==
    IF outcome \in {"error", "summary"} /\ ThrowsAborted(aborted) THEN "threw" ELSE "prepared"

\* attemptApiRequest: truncateConversationIfNeeded and what follows its result
CondenseTruncate ==
    \E outcome \in TruncateOutcomes :
        /\ condensePc = "called"
        /\ outcome = "truncated" => Len(apiConversationHistory) >= 3
        /\ outcome = "summary" => Len(apiConversationHistory) >= 2
        /\ apiConversationHistory' =
               IF outcome = "summary" THEN SummarizedMessages(apiConversationHistory)
               ELSE IF outcome = "truncated" THEN TruncatedMessages(apiConversationHistory)
               ELSE apiConversationHistory
        /\ skipPrevResponseIdOnce' = (skipPrevResponseIdOnce \/ outcome = "summary")
        /\ condensedSince' = [condensedSince EXCEPT !.auto = @ \/ outcome = "summary"]
        /\ IF outcome = "error"
           THEN Say("condense_context_error", "undefined", FALSE)
           ELSE IF outcome = "summary"
           THEN Say("condense_context", "false", TRUE)
           ELSE UNCHANGED <<clineMessages, lastMessageTs, ret, burst>>
        /\ condensePc' = AfterTruncate(outcome, abort)
        /\ UNCHANGED <<condenseQuiet, abort, abandoned, disposeVars, streamVars,
                       storedResponseId, lastMetadata, condenseRequests>>

\* attemptApiRequest: the auto-approval limits, the metadata, the reset of the
\* skip flag, and createMessage
CondenseCreateMessage ==
    \E shouldProceed \in BOOLEAN :
        /\ condensePc = "prepared"
        /\ IF shouldProceed
           THEN /\ lastMetadata' =
                       [sent |-> TRUE,
                        previousResponseId |->
                            PreviousResponseId(isGpt5, skipPrevResponseIdOnce,
                                               storedResponseId),
                        suppressPreviousResponseId |-> skipPrevResponseIdOnce,
                        afterAuto |-> condensedSince.auto,
                        afterManual |-> condensedSince.manual]
                /\ skipPrevResponseIdOnce' = FALSE
                /\ condensedSince' = NotCondensed
                /\ condenseRequests' = condenseRequests + 1
                /\ condensePc' = "streaming"
           ELSE /\ condensePc' = "threw"
                /\ UNCHANGED <<lastMetadata, skipPrevResponseIdOnce, condensedSince,
                               condenseRequests>>
        /\ UNCHANGED <<condenseQuiet, abort, abandoned, clineMessages, lastMessageTs,
                       ret, burst, disposeVars, apiConversationHistory, streamVars,
                       storedResponseId>>

\* the response is read to its end: persistGpt5Metadata stores the response id
\* the provider reports (or none) and the assistant turn is appended
CondenseResponse ==
    \E hasResponseId \in BOOLEAN :
        /\ condensePc = "streaming"
        /\ ~abort
        /\ storedResponseId' = IF isGpt5 THEN hasResponseId ELSE storedResponseId
        /\ apiConversationHistory' =
               Append(apiConversationHistory,
                      AssistantTurn(CompleteAssistantText([chunks |-> 1, note |-> "none"])))
        /\ condensePc' = "idle"
        /\ UNCHANGED <<condenseQuiet, abort, abandoned, clineMessages, lastMessageTs,
                       ret, burst, disposeVars, streamVars, skipPrevResponseIdOnce,
                       lastMetadata, condensedSince, condenseRequests>>

\* the first chunk fails and the request is retried: attemptApiRequest again
CondenseFirstChunkFails ==
    /\ condensePc = "streaming"
    /\ condenseRequests < MaxCondenseRequests
    /\ condensePc' = "called"
    /\ UNCHANGED <<condenseQuiet, abort, abandoned, clineMessages, lastMessageTs, ret,
                   burst, disposeVars, apiConversationHistory, streamVars,
                   skipPrevResponseIdOnce, storedResponseId, lastMetadata,
                   condensedSince, condenseRequests>>

\* the stream loop sees the abort flag after a chunk
CondenseStreamAborted ==
    /\ condensePc = "streaming"
    /\ abort
    /\ AfterChunk(assistantMessage)
    /\ condensePc' = "ended"
    /\ UNCHANGED <<condenseQuiet, abort, abandoned, lastMessageTs, ret, burst,
                   disposeVars, streamFields, skipPrevResponseIdOnce, storedResponseId,
                   lastMetadata, condensedSince, condenseRequests>>

\* attemptApiRequest threw before createMessage: the catch of the stream loop
CondenseThrown ==
    /\ condensePc = "threw"
    /\ CatchStreamFailure
    /\ condensePc' = "ended"
    /\ UNCHANGED <<now, askResponse, blockingAsk, taskState, asks, savedApiHistory,
                   nextUserContent, resumePc, resumedFrom, rateVars, storeVars, outerVars, isGpt5,
                   lastMessageTs, ret, burst, assistantMessage, toolUseStreamed,
                   userMessageContentReady, didRejectTool, didAlreadyUseTool,
                   chunksSeen, requests, abortedAt, attempt, mistakeVars,
                   skipPrevResponseIdOnce,
                   storedResponseId, lastMetadata, condensedSince, condenseRequests>>

\* Task.condenseContext: the user condenses the conversation by hand
CondenseContext ==
    \E failed \in BOOLEAN :
        /\ condensePc \in {"idle", "streaming"}
        /\ ~abort => Len(clineMessages) < MaxMsgs
        /\ ~failed => Len(apiConversationHistory) >= 2
        /\ IF failed
           THEN /\ Say("condense_context_error", "false", TRUE)
                /\ UNCHANGED <<apiConversationHistory, condensedSince>>
           ELSE /\ apiConversationHistory' = SummarizedMessages(apiConversationHistory)
                /\ condensedSince' = [condensedSince EXCEPT !.manual = TRUE]
                /\ Say("condense_context", "false", TRUE)
        /\ UNCHANGED <<condenseQuiet, abort, abandoned, disposeVars, streamVars,
                       skipPrevResponseIdOnce, storedResponseId, condensePc,
                       lastMetadata, condenseRequests>>

\* the user cancels the task
CondenseUserAbort ==
    \E isAbandoned \in BOOLEAN :
        /\ ~abort
        /\ condensePc # "none"
        /\ AbortTask(isAbandoned, {})
        /\ UNCHANGED <<condenseQuiet, clineMessages, lastMessageTs, ret, burst,
                       apiConversationHistory, streamVars, skipPrevResponseIdOnce,
                       storedResponseId, condensePc, lastMetadata, condensedSince,
                       condenseRequests>>

CondenseInit ==
    /\ skipPrevResponseIdOnce = FALSE
    /\ storedResponseId = FALSE
    /\ isGpt5 \in BOOLEAN
    /\ condensePc = "none"
    /\ lastMetadata = NoMetadata
    /\ condensedSince = NotCondensed
    /\ condenseRequests = 0

InitCondense ==
    /\ TaskInit /\ DisposeInit /\ ResumeIdle /\ StreamIdle /\ RateIdle /\ CondenseInit
    /\ StoreIdle /\ OuterIdle

NextCondense ==
    \/ CondenseRound
    \/ CondenseTruncate
    \/ CondenseCreateMessage
    \/ CondenseResponse
    \/ CondenseFirstChunkFails
    \/ CondenseStreamAborted
    \/ CondenseThrown
    \/ CondenseContext
    \/ CondenseUserAbort

SpecCondense == InitCondense /\ [][NextCondense]_vars

\* C9: a createMessage call of an attempt whose truncateConversationIfNeeded
\* returned a summary carries no previousResponseId and carries
\* suppressPreviousResponseId; the flag is false after every call, and a call
\* made without an automatic condensation before it is not suppressed.
C9_AutoCondenseSuppressesOnce ==
    /\ lastMetadata.afterAuto =>
           ~lastMetadata.previousResponseId /\ lastMetadata.suppressPreviousResponseId
    /\ (lastMetadata.sent /\ ~lastMetadata.afterAuto) =>
           ~lastMetadata.suppressPreviousResponseId
    /\ condensePc = "streaming" => ~skipPrevResponseIdOnce

\* a gpt-5 task with a stored response id sent its second request right after
\* an automatic condensation
C9_Witness ==
    /\ lastMetadata.afterAuto
    /\ isGpt5
    /\ storedResponseId
    /\ condenseRequests = 2
    /\ condensePc = "streaming"

\* C10: the first createMessage call after a successful condenseContext()
\* carries no previousResponseId and carries suppressPreviousResponseId.
C10_ManualCondenseSuppresses ==
    lastMetadata.afterManual =>
        ~lastMetadata.previousResponseId /\ lastMetadata.suppressPreviousResponseId

\* a step in which say("condense_context_error") appends its entry
CondenseErrorSaid ==
    /\ Len(clineMessages') = Len(clineMessages) + 1
    /\ clineMessages'[Len(clineMessages')].kind = "condense_context_error"

\* C34: a condensation or truncation failure never aborts the task: the step
\* that reports it with a condense_context_error say leaves abort and
\* abandoned alone; in a request attempt the attempt goes on to the approval
\* gate, from which createMessage is called unless continuation is declined;
\* a failed manual condenseContext leaves the API history unchanged.
C34_CondenseFailureDoesNotAbort ==
    [][/\ CondenseErrorSaid
              => /\ abort' = abort
                 /\ abandoned' = abandoned
                 /\ IF condensePc = "called"
                    THEN condensePc' = "prepared"
                    ELSE /\ condensePc' = condensePc
                         /\ apiConversationHistory' = apiConversationHistory
       /\ (condensePc = "prepared" /\ condensePc' # condensePc)
              => \/ condensePc' = "streaming" /\ condenseRequests' = condenseRequests + 1
                 \/ condensePc' = "threw" /\ condenseRequests' = condenseRequests]_vars

\* the request of an attempt whose truncation failed was sent, the task is
\* not aborted and the error entry is the last of the log
C34_Witness ==
    /\ condensePc = "streaming"
    /\ ~abort
    /\ condenseRequests = 1
    /\ Len(clineMessages) > 0
    /\ clineMessages[Len(clineMessages)].kind = "condense_context_error"
    /\ clineMessages[Len(clineMessages)].partial = "undefined"

----------------------------------------------------------------------------
(* SpecAsk: ask / say / handleWebviewAskResponse with every delivered      *)
(* response numbered, to follow which ask call returns which delivery      *)

\* handleWebviewAskResponse is called at most MaxDeliveries times
MaxDeliveries == 3

\* what the ask/say operations and the numbering leave alone
askQuiet == <<resumeVars, streamVars, rateVars, condenseVars, storeVars, subtaskVars,
              runVars, workerVars, tokenVars>>

\* the delivery the slot holds after a step of ask
SlotSerialAfter == IF askResponse' = "none" THEN 0 ELSE slotSerial

\* Task.ask up to its first suspension; a terminal ask notes how many
\* responses had been delivered when it was issued
AskIssued(i) ==
    \E kind \in AskKinds, partial \in Partials :
        /\ (~abort /\ AskAppends(clineMessages, kind, partial)) =>
               Len(clineMessages) < MaxMsgs
        /\ Ask(i, kind, partial)
        /\ slotSerial' = SlotSerialAfter
        /\ issuedAfter' = IF asks'[i].pc = "saving"
                          THEN [issuedAfter EXCEPT ![i] = delivered]
                          ELSE issuedAfter
        /\ UNCHANGED <<delivered, returned>>
        /\ UNCHANGED <<now, abort, abandoned, blockingAsk, taskState, disposeVars,
                       askQuiet>>

\* the wait of an ask ends: it is ignored, or it returns what the slot holds
AskReturned(i) ==
    /\ AskResult(i)
    /\ slotSerial' = SlotSerialAfter
    /\ returned' = IF ret'.res = "returned"
                   THEN Append(returned, [serial |-> slotSerial,
                                          issuedAfter |-> issuedAfter[i], by |-> i])
                   ELSE returned
    /\ UNCHANGED <<delivered, issuedAfter>>
    /\ UNCHANGED <<now, abort, abandoned, clineMessages, lastMessageTs, burst,
                   disposeVars, askQuiet>>

\* Task.handleWebviewAskResponse, the delivery numbered
ResponseDelivered ==
    \E r \in Responses :
        /\ delivered < MaxDeliveries
        /\ SetAskResponse(r)
        /\ delivered' = delivered + 1
        /\ slotSerial' = delivered + 1
        /\ UNCHANGED <<issuedAfter, returned>>
        /\ UNCHANGED <<now, abort, abandoned, clineMessages, lastMessageTs,
                       blockingAsk, taskState, asks, burst, disposeVars, askQuiet>>

InitAsk == Init

NextAsk ==
    \/ SayCall
    \/ \E i \in Callers : AskIssued(i)
    \/ \E i \in Callers : AskBeginWait(i)
    \/ \E i \in Callers : AskReturned(i)
    \/ ResponseDelivered
    \/ UserAbort
    \/ Tick

SpecAsk == InitAsk /\ [][NextAsk]_vars

\* C36: a response delivered through handleWebviewAskResponse is returned by
\* at most one ask call: every returned response was delivered after the ask
\* that returns it was issued, and no delivery is returned twice.
C36_ResponseReturnedAtMostOnce ==
    /\ \A k \in 1..Len(returned) :
           /\ returned[k].serial > returned[k].issuedAfter
           /\ returned[k].serial <= delivered
    /\ \A j, k \in 1..Len(returned) :
           j # k => returned[j].serial # returned[k].serial

\* two asks have returned; the first had found an earlier delivery in the
\* slot when it was issued and returned the one made while it waited
C36_Witness ==
    /\ Len(returned) = 2
    /\ returned[1].issuedAfter = 1
    /\ returned[1].serial = 2
    /\ returned[2].serial = 3

----------------------------------------------------------------------------
(* SpecRunTask: runTask of apps/roomote/src/lib/controller.ts, from the    *)
(* StartNewTask command to the report of how the task ended                *)

\* task events the IPC client receives during one run
MaxTaskEvents == 3

TaskEventNames == {"TaskStarted", "TaskAborted", "TaskCompleted"}

\* what runTask leaves alone
runQuiet == <<abort, abandoned, clineMessages, lastMessageTs, askResponse, blockingAsk,
              taskState, asks, burst, disposeVars, resumeVars, streamVars, rateVars,
              condenseVars, storeVars, subtaskVars, askTrack, workerVars, tokenVars>>

\* task events handled so far
EventsHandled ==
    Cardinality({k \in 1..Len(callbackCalls) :
                    callbackCalls[k] \in {"onTaskStarted", "onTaskAborted",
                                          "onTaskCompleted", "noTaskId"}})

\* runTask up to the wait: the client is connected, the handlers are
\* registered and StartNewTask is sent (controller.ts 262-347)
RunTaskStart ==
    /\ runPc = "none"
    /\ runPc' = "waiting"
    /\ taskStartedAt' = now
    /\ commands' = Append(commands, "StartNewTask")
    /\ UNCHANGED <<taskFinishedAt, taskAbortedAt, taskTimedOut, rooTaskId,
                   isClientDisconnected, slackThreadTs, callbackCalls, runError>>
    /\ UNCHANGED <<now, ret, runQuiet>>

\* client.on(IpcMessageType.TaskEvent, ...): hasId: the payload of TaskStarted
\* carries a task id; posted: the Slack notifier returned a thread
OnTaskEvent ==
    \E eventName \in TaskEventNames, hasId \in BOOLEAN, posted \in BOOLEAN :
        /\ runPc # "none"
        /\ ~isClientDisconnected
        /\ "disconnect" \notin {commands[k] : k \in 1..Len(commands)}
        /\ EventsHandled < MaxTaskEvents
        /\ eventName = "TaskStarted" \/ (hasId /\ posted)
        /\ IF eventName = "TaskStarted"
           THEN /\ taskStartedAt' = now
                /\ rooTaskId' = IF hasId THEN "task" ELSE "undefined"
                /\ slackThreadTs' = IF hasId
                                    THEN (IF posted THEN "thread" ELSE "null")
                                    ELSE slackThreadTs
                /\ callbackCalls' = Append(callbackCalls,
                                           IF hasId THEN "onTaskStarted" ELSE "noTaskId")
                /\ UNCHANGED <<taskAbortedAt, taskFinishedAt>>
           ELSE IF eventName = "TaskAborted"
           THEN /\ taskAbortedAt' = now
                /\ callbackCalls' = Append(callbackCalls, "onTaskAborted")
                /\ UNCHANGED <<taskStartedAt, rooTaskId, slackThreadTs, taskFinishedAt>>
           ELSE /\ taskFinishedAt' = now
                /\ callbackCalls' = Append(callbackCalls, "onTaskCompleted")
                /\ UNCHANGED <<taskStartedAt, rooTaskId, slackThreadTs, taskAbortedAt>>
        /\ UNCHANGED <<runPc, taskTimedOut, isClientDisconnected, commands, runError>>
        /\ UNCHANGED <<now, ret, runQuiet>>

\* client.on(IpcMessageType.Disconnect, ...): the socket was closed
OnDisconnect ==
    /\ runPc # "none"
    /\ ~isClientDisconnected
    /\ "disconnect" \notin {commands[k] : k \in 1..Len(commands)}
    /\ isClientDisconnected' = TRUE
    /\ UNCHANGED <<runPc, taskStartedAt, taskFinishedAt, taskAbortedAt, taskTimedOut,
                   rooTaskId, slackThreadTs, callbackCalls, commands, runError>>
    /\ UNCHANGED <<now, ret, runQuiet>>

\* the condition pWaitFor polls (controller.ts 351)
RunWaitOver == taskFinishedAt # NoTs \/ taskAbortedAt # NoTs \/ isClientDisconnected

\* the wait ends because its condition holds
RunTaskWaitEnds ==
    /\ runPc = "waiting"
    /\ RunWaitOver
    /\ runPc' = "afterWait"
    /\ UNCHANGED <<taskStartedAt, taskFinishedAt, taskAbortedAt, taskTimedOut, rooTaskId,
                   isClientDisconnected, slackThreadTs, callbackCalls, commands, runError>>
    /\ UNCHANGED <<now, ret, runQuiet>>

\* the wait times out (between two polls the condition may have come to
\* hold): the catch up to the delay that lets the task cancel
RunTaskTimesOut ==
    /\ runPc = "waiting"
    /\ taskTimedOut' = TRUE
    /\ callbackCalls' = Append(callbackCalls, "onTaskTimedOut")
    /\ commands' = IF rooTaskId # "undefined" /\ ~isClientDisconnected
                   THEN Append(commands, "CancelTask") ELSE commands
    /\ runPc' = "timedOut"
    /\ UNCHANGED <<taskStartedAt, taskFinishedAt, taskAbortedAt, rooTaskId,
                   isClientDisconnected, slackThreadTs, runError>>
    /\ UNCHANGED <<now, ret, runQuiet>>

\* the end of the catch: taskFinishedAt = Date.now()
RunTaskTimeoutHandled ==
    /\ runPc = "timedOut"
    /\ taskFinishedAt' = now
    /\ runPc' = "afterWait"
    /\ UNCHANGED <<taskStartedAt, taskAbortedAt, taskTimedOut, rooTaskId,
                   isClientDisconnected, slackThreadTs, callbackCalls, commands, runError>>
    /\ UNCHANGED <<now, ret, runQuiet>>

\* if (!taskFinishedAt && !taskTimedOut) (controller.ts 375)
ReportsDisconnection(finishedAt, timedOut) == finishedAt = NoTs /\ ~timedOut

\* after the wait: the disconnection report and its throw, or CloseTask
RunTaskAfterWait ==
    /\ runPc = "afterWait"
    /\ IF ReportsDisconnection(taskFinishedAt, taskTimedOut)
       THEN /\ callbackCalls' = Append(callbackCalls, "onClientDisconnected")
            /\ runError' = "Client disconnected before task completion."
            /\ runPc' = "threw"
            /\ UNCHANGED commands
       ELSE /\ commands' = IF rooTaskId # "undefined" /\ ~isClientDisconnected
                           THEN Append(commands, "CloseTask") ELSE commands
            /\ runPc' = "closing"
            /\ UNCHANGED <<callbackCalls, runError>>
    /\ UNCHANGED <<taskStartedAt, taskFinishedAt, taskAbortedAt, taskTimedOut, rooTaskId,
                   isClientDisconnected, slackThreadTs>>
    /\ UNCHANGED <<now, ret, runQuiet>>

\* if (!isClientDisconnected) client.disconnect(), then the subprocess is ended
RunTaskDisconnects ==
    /\ runPc = "closing"
    /\ commands' = IF ~isClientDisconnected THEN Append(commands, "disconnect")
                   ELSE commands
    /\ runPc' = "done"
    /\ UNCHANGED <<taskStartedAt, taskFinishedAt, taskAbortedAt, taskTimedOut, rooTaskId,
                   isClientDisconnected, slackThreadTs, callbackCalls, runError>>
    /\ UNCHANGED <<now, ret, runQuiet>>

InitRunTask == Init

NextRunTask ==
    \/ RunTaskStart
    \/ OnTaskEvent
    \/ OnDisconnect
    \/ RunTaskWaitEnds
    \/ RunTaskTimesOut
    \/ RunTaskTimeoutHandled
    \/ RunTaskAfterWait
    \/ RunTaskDisconnects
    \/ Tick

SpecRunTask == InitRunTask /\ [][NextRunTask]_vars

\* runTask has reported a client disconnection
DisconnectionReported ==
    \/ runError = "Client disconnected before task completion."
    \/ \E k \in 1..Len(callbackCalls) : callbackCalls[k] = "onClientDisconnected"

\* C38: runTask reports a client disconnection (the onClientDisconnected
\* callback and the error "Client disconnected before task completion.")
\* only when the IPC client disconnected before the task finished: not for a
\* task that ended with a TaskAborted event, nor for one that timed out.
C38_DisconnectionReportedOnlyWhenDisconnected ==
    DisconnectionReported =>
        /\ isClientDisconnected
        /\ taskAbortedAt = NoTs
        /\ ~taskTimedOut

----------------------------------------------------------------------------
(* SpecWorkers: the WorkerController of apps/roomote/src/lib/controller.ts *)
(* under start, stop, the polls of its timers and the end of its workers   *)

\* processes spawned in one run of the model
MaxSpawns == 6
\* checkAndSpawnWorker calls of the timers that are in flight at a time
MaxChecks == 2
\* calls of start
MaxStartCalls == 3

\* what the controller leaves alone
workersQuiet == <<taskVars, disposeVars, resumeVars, streamVars, rateVars, condenseVars,
                  storeVars, subtaskVars, askTrack, runVars, tokenVars>>

\* spawned processes that have neither exited nor reported an error
LiveCount(live) ==
    LET Sum[n \in 0..MaxControllerClock] == IF n = 0 THEN 0 ELSE Sum[n - 1] + live[n]
    IN Sum[MaxControllerClock]

\* const workerId = `worker-${Date.now()}`
WorkerId(t) == t

\* spawnWorker: the process is spawned and its id added, or spawn throws and
\* the catch deletes the id
SpawnWorker(throws) ==
    IF throws
    THEN /\ activeWorkers' = activeWorkers \ {WorkerId(controllerNow)}
         /\ UNCHANGED <<liveWorkers, spawned>>
    ELSE /\ activeWorkers' = activeWorkers \cup {WorkerId(controllerNow)}
         /\ liveWorkers' = [liveWorkers EXCEPT ![WorkerId(controllerNow)] = @ + 1]
         /\ spawned' = spawned + 1

\* checkAndSpawnWorker from the point where its two queue calls have settled:
\* failed: one of them rejected, which a closed queue always does
CheckAndSpawnWorker ==
    \E waitingCount \in 0..1, failed \in BOOLEAN, throws \in BOOLEAN :
        /\ queueClosed => failed
        /\ (failed \/ waitingCount = 0) => ~throws
        /\ IF ~failed /\ waitingCount > 0 /\ Cardinality(activeWorkers) < MAX_WORKERS
           THEN /\ spawned < MaxSpawns
                /\ SpawnWorker(throws)
           ELSE /\ ~throws
                /\ UNCHANGED <<activeWorkers, liveWorkers, spawned>>

\* WorkerController.start up to its await
Start ==
    /\ startCalls < MaxStartCalls
    /\ startCalls' = startCalls + 1
    /\ IF isRunning
       THEN UNCHANGED <<isRunning, startChecks>>
       ELSE /\ isRunning' = TRUE
            /\ startChecks' = startChecks + 1
    /\ UNCHANGED <<pollingInterval, activeWorkers, timers, controllerNow, liveWorkers,
                   spawned, checks, stopPc, queueClosed>>
    /\ UNCHANGED workersQuiet

\* the timer setInterval returns: one that is not in use
NewTimer == CHOOSE t \in 1..MaxTimers : ~timers[t].set

\* the first checkAndSpawnWorker of a start call settles and start creates
\* its polling timer
StartChecked ==
    /\ startChecks > 0
    /\ \E t \in 1..MaxTimers : ~timers[t].set
    /\ CheckAndSpawnWorker
    /\ startChecks' = startChecks - 1
    /\ timers' = [timers EXCEPT ![NewTimer] = [set |-> TRUE, lastFire |-> controllerNow]]
    /\ pollingInterval' = NewTimer
    /\ UNCHANGED <<isRunning, controllerNow, checks, stopPc, queueClosed, startCalls>>
    /\ UNCHANGED workersQuiet

\* a polling timer fires, POLL_INTERVAL_MS after it last did: its callback
\* calls checkAndSpawnWorker, which waits for the queue
PollTimerFires ==
    \E t \in 1..MaxTimers :
        /\ timers[t].set
        /\ controllerNow > timers[t].lastFire
        /\ checks < MaxChecks
        /\ timers' = [timers EXCEPT ![t].lastFire = controllerNow]
        /\ checks' = checks + 1
        /\ UNCHANGED <<isRunning, pollingInterval, activeWorkers, controllerNow,
                       liveWorkers, spawned, startChecks, stopPc, queueClosed,
                       startCalls>>
        /\ UNCHANGED workersQuiet

\* the checkAndSpawnWorker of a timer callback settles
PollChecked ==
    /\ checks > 0
    /\ CheckAndSpawnWorker
    /\ checks' = checks - 1
    /\ UNCHANGED <<isRunning, pollingInterval, timers, controllerNow, startChecks,
                   stopPc, queueClosed, startCalls>>
    /\ UNCHANGED workersQuiet

\* childProcess.on("exit") / childProcess.on("error") of a live worker
WorkerEnds ==
    \E id \in 1..MaxControllerClock :
        /\ liveWorkers[id] > 0
        /\ liveWorkers' = [liveWorkers EXCEPT ![id] = @ - 1]
        /\ activeWorkers' = activeWorkers \ {id}
        /\ UNCHANGED <<isRunning, pollingInterval, timers, controllerNow, spawned,
                       checks, startChecks, stopPc, queueClosed, startCalls>>
        /\ UNCHANGED workersQuiet

\* WorkerController.stop on a running controller, up to await queue.close()
Stop ==
    /\ isRunning
    /\ stopPc = "none"
    /\ isRunning' = FALSE
    /\ IF pollingInterval # 0
       THEN /\ timers' = [timers EXCEPT ![pollingInterval] = NoTimer]
            /\ pollingInterval' = 0
       ELSE UNCHANGED <<timers, pollingInterval>>
    /\ stopPc' = "closing"
    /\ UNCHANGED <<activeWorkers, controllerNow, liveWorkers, spawned, checks,
                   startChecks, queueClosed, startCalls>>
    /\ UNCHANGED workersQuiet

\* queue.close() completes and stop returns
StopReturns ==
    /\ stopPc = "closing"
    /\ stopPc' = "none"
    /\ queueClosed' = TRUE
    /\ UNCHANGED <<isRunning, pollingInterval, activeWorkers, timers, controllerNow,
                   liveWorkers, spawned, checks, startChecks, startCalls>>
    /\ UNCHANGED workersQuiet

\* a millisecond passes
MsPasses ==
    /\ controllerNow < MaxControllerClock
    /\ controllerNow' = controllerNow + 1
    /\ UNCHANGED <<isRunning, pollingInterval, activeWorkers, timers, liveWorkers,
                   spawned, checks, startChecks, stopPc, queueClosed, startCalls>>
    /\ UNCHANGED workersQuiet

InitWorkers == Init

NextWorkers ==
    \/ Start
    \/ StartChecked
    \/ PollTimerFires
    \/ PollChecked
    \/ WorkerEnds
    \/ Stop
    \/ StopReturns
    \/ MsPasses

SpecWorkers == InitWorkers /\ [][NextWorkers]_vars

\* the worker count and the bookkeeping of activeWorkers
WorkersAccounted ==
    /\ LiveCount(liveWorkers) <= MAX_WORKERS
    /\ activeWorkers = {id \in 1..MaxControllerClock : liveWorkers[id] > 0}

\* start on a running controller spawns nothing and creates no timer
StartOnRunningIsInert ==
    (startCalls' = startCalls + 1 /\ isRunning) =>
        UNCHANGED <<isRunning, pollingInterval, activeWorkers, timers, liveWorkers,
                    spawned, checks, startChecks>>

\* no worker is spawned once stop has returned
NoSpawnAfterStop == (queueClosed /\ ~isRunning) => spawned' = spawned

\* C39: in WorkerController the number of live spawned workers never exceeds
\* MAX_WORKERS and activeWorkers holds exactly the ids of the workers that
\* were spawned and have not yet exited or errored; start on a running
\* controller spawns nothing and creates no second polling timer, and after
\* stop has returned no further worker is spawned.
C39_WorkersBoundedAndAccounted ==
    /\ []WorkersAccounted
    /\ [][StartOnRunningIsInert /\ NoSpawnAfterStop]_vars

----------------------------------------------------------------------------
(* SpecTokens: getModelMaxOutputTokens of src/shared/api.ts on bounded     *)
(* models and settings, called directly and by attemptApiRequest           *)

\* model.maxTokens, settings.modelMaxTokens and claudeCodeMaxOutputTokens
\* range over 0..MaxModelTokens; 0 stands for 0 and for a field left out
MaxModelTokens == 3
\* model.contextWindow ranges over 0..MaxContextWindow
MaxContextWindow == 11

\* constants of @roo-code/types
ANTHROPIC_DEFAULT_MAX_TOKENS == 8192
CLAUDE_CODE_DEFAULT_MAX_OUTPUT_TOKENS == 16000
\* src/shared/api.ts 68
DEFAULT_HYBRID_REASONING_MODEL_MAX_TOKENS == 16384

ModelIds == {"claude-3-haiku", "anthropic/other", "gpt-4"}
Formats == {"undefined", "anthropic", "openai", "gemini", "openrouter"}

\* modelId.includes("claude") for the ids of the model
IncludesClaude(modelId) == modelId = "claude-3-haiku"
\* modelId.startsWith("anthropic/")
StartsWithAnthropic(modelId) == modelId = "anthropic/other"

\* a || b on numbers
OrElse(a, b) == IF a # 0 THEN a ELSE b

\* Math.ceil(contextWindow * 0.2): the double nearest to contextWindow * 0.2
\* is exact when contextWindow is a multiple of 5 and lies strictly between
\* the same two integers as contextWindow / 5 when it is not
CeilFifth(contextWindow) == (contextWindow + 4) \div 5

\* a result that takes the model's maxTokens as it is
Unclamped(maxTokens, contextWindow) == maxTokens

\* Math.min(model.maxTokens, Math.ceil(model.contextWindow * 0.2))
Clamped(maxTokens, contextWindow) == Min(maxTokens, CeilFifth(contextWindow))

shouldUseReasoningBudget(a) ==
    a.requiredReasoningBudget \/ (a.supportsReasoningBudget /\ a.enableReasoningEffort)

isAnthropicContext(a) ==
    \/ IncludesClaude(a.modelId)
    \/ a.format = "anthropic"
    \/ (a.format = "openrouter" /\ StartsWithAnthropic(a.modelId))

getModelMaxOutputTokens(a) ==
    IF a.apiProvider = "claude-code"
    THEN OrElse(a.claudeCodeMaxOutputTokens, CLAUDE_CODE_DEFAULT_MAX_OUTPUT_TOKENS)
    ELSE IF shouldUseReasoningBudget(a)
    THEN OrElse(a.modelMaxTokens, DEFAULT_HYBRID_REASONING_MODEL_MAX_TOKENS)
    ELSE IF a.supportsReasoningBudget /\ isAnthropicContext(a)
    THEN ANTHROPIC_DEFAULT_MAX_TOKENS
    ELSE IF isAnthropicContext(a) /\ a.maxTokens = 0
    THEN ANTHROPIC_DEFAULT_MAX_TOKENS
    ELSE IF a.maxTokens # 0
    THEN Clamped(a.maxTokens, a.contextWindow)
    ELSE IF a.format # "undefined"
    THEN NoBudget
    ELSE ANTHROPIC_DEFAULT_MAX_TOKENS

\* what the token budget leaves alone
tokenQuiet == <<taskVars, disposeVars, resumeVars, streamVars, rateVars, condenseVars,
                storeVars, subtaskVars, askTrack, runVars, workerVars>>

\* a call of getModelMaxOutputTokens with the arguments at hand
GetModelMaxOutputTokens ==
    /\ tokenPc = "none"
    /\ tokenResult' = getModelMaxOutputTokens(tokenArgs)
    /\ tokenPc' = "returned"
    /\ UNCHANGED <<tokenArgs, tokenQuiet>>

\* attemptApiRequest: the call that passes modelId, model and settings and no
\* format, whose result goes to truncateConversationIfNeeded as maxTokens
AttemptMaxTokens ==
    /\ tokenPc = "none"
    /\ tokenArgs.format = "undefined"
    /\ tokenResult' = getModelMaxOutputTokens(tokenArgs)
    /\ tokenPc' = "passed"
    /\ UNCHANGED <<tokenArgs, tokenQuiet>>

InitTokens ==
    /\ TaskInit /\ DisposeInit /\ ResumeIdle /\ StreamIdle /\ RateIdle /\ CondenseIdle
    /\ StoreIdle /\ SubtaskIdle /\ AskTrackIdle /\ RunIdle /\ WorkersIdle
    /\ tokenPc = "none"
    /\ tokenResult = NoBudget
    /\ tokenArgs \in
           [apiProvider : {"claude-code", "other"},
            claudeCodeMaxOutputTokens : {0, MaxModelTokens},
            modelMaxTokens : {0, MaxModelTokens},
            enableReasoningEffort : BOOLEAN,
            requiredReasoningBudget : BOOLEAN,
            supportsReasoningBudget : BOOLEAN,
            modelId : ModelIds,
            format : Formats,
            maxTokens : 0..MaxModelTokens,
            contextWindow : 0..MaxContextWindow]

NextTokens == GetModelMaxOutputTokens \/ AttemptMaxTokens

SpecTokens == InitTokens /\ [][NextTokens]_vars

\* no earlier rule of the function applies: the provider is not claude-code,
\* no reasoning budget is in use, no hybrid-reasoning model in an Anthropic
\* context
NoEarlierRule(a) ==
    /\ a.apiProvider # "claude-code"
    /\ ~shouldUseReasoningBudget(a)
    /\ ~(a.supportsReasoningBudget /\ isAnthropicContext(a))

\* C40 as stated: with an explicit positive maxTokens and no earlier rule the
\* function returns min(maxTokens, ceil(contextWindow * 0.2)), which is at
\* most a fifth of the context window, rounded up; with no maxTokens it
\* returns undefined when a format is given and the Anthropic default
\* otherwise.
C40_MaxOutputTokensAsStated ==
    (tokenPc # "none" /\ NoEarlierRule(tokenArgs)) =>
        IF tokenArgs.maxTokens > 0
        THEN /\ tokenResult = Min(tokenArgs.maxTokens, CeilFifth(tokenArgs.contextWindow))
             /\ tokenResult * 5 < tokenArgs.contextWindow + 5
        ELSE tokenResult = IF tokenArgs.format # "undefined"
                           THEN NoBudget ELSE ANTHROPIC_DEFAULT_MAX_TOKENS

\* C40 amended: as stated for an explicit positive maxTokens; with no
\* maxTokens the function returns the Anthropic default in an Anthropic
\* context, whatever the format, and outside one undefined when a format is
\* given and the Anthropic default when none is.
C40_MaxOutputTokensClamped ==
    (tokenPc # "none" /\ NoEarlierRule(tokenArgs)) =>
        IF tokenArgs.maxTokens > 0
        THEN /\ tokenResult = Min(tokenArgs.maxTokens, CeilFifth(tokenArgs.contextWindow))
             /\ tokenResult * 5 < tokenArgs.contextWindow + 5
        ELSE tokenResult = IF isAnthropicContext(tokenArgs)
                           THEN ANTHROPIC_DEFAULT_MAX_TOKENS
                           ELSE IF tokenArgs.format # "undefined"
                           THEN NoBudget ELSE ANTHROPIC_DEFAULT_MAX_TOKENS

\* attemptApiRequest passed a budget that the clamp had cut: the model's
\* maxTokens is above a fifth of its context window
C40_Witness ==
    /\ tokenPc = "passed"
    /\ NoEarlierRule(tokenArgs)
    /\ tokenArgs.maxTokens = 3
    /\ tokenArgs.contextWindow = 6
    /\ tokenResult = 2

====
